---- MODULE Spec2Model ----
(***************************************************************************)
(* Model of the pj binary manager (src/binary/manager.ts, version.ts,      *)
(* platform.ts, constants.ts of @joe-sh/pj).                               *)
(*                                                                         *)
(* Strings that the code parses (versions, tags, the stdout of a binary)   *)
(* are sequences of one-character strings, so that parsing is computed.    *)
(* Paths and error kinds, which the code only compares, are plain strings. *)
(*                                                                         *)
(* A value that the code binds with const and uses more than once is       *)
(* bound with Bind(value, LAMBDA name : ...).                              *)
(***************************************************************************)
EXTENDS Integers, Sequences, FiniteSets, TLC

VARIABLES
    envPath,            \* process.env["PJ_BINARY_PATH"]: a path or Null
    files,              \* the filesystem: path -> file (or NoFile)
    cacheDirExists,     \* the binary cache directory exists
    tarballs,           \* archive files present in the binary cache directory
    metadataFile,       \* the content of metadata.json (or NoFile)
    cachedBinaryPath,   \* BinaryManager.cachedBinaryPath (in memory)
    registry,           \* the remote release listing, most recent first
    now,                \* the wall clock, in days
    last,               \* record of the call that was made last
    progress,           \* the asset download in flight that reports progress
    host,               \* process.platform and process.arch of the host
    calls               \* the calls in flight when callers do not wait

vars == <<envPath, files, cacheDirExists, tarballs, metadataFile,
          cachedBinaryPath, registry, now, last, progress, host, calls>>

\* every call is awaited before the next is made: none is in flight
NoCalls == <<>>

\* null for a path (a plain string), for a parsed string, for a record
Null == "null"
NullStr == <<"null">>
NullRec == [null |-> TRUE]

----------------------------------------------------------------------------
(* Strings *)

\* const x = v; K(x)
Bind(v, K(_)) == K(v)

Digits == {"0", "1", "2", "3", "4", "5", "6", "7", "8", "9"}

DigitValue(c) ==
    CASE c = "0" -> 0 [] c = "1" -> 1 [] c = "2" -> 2 [] c = "3" -> 3
      [] c = "4" -> 4 [] c = "5" -> 5 [] c = "6" -> 6 [] c = "7" -> 7
      [] c = "8" -> 8 [] c = "9" -> 9

\* parseInt(s, 10) of a string of digits
RECURSIVE ParseInt(_)
ParseInt(s) ==
    IF Len(s) = 0 THEN 0
    ELSE 10 * ParseInt(SubSeq(s, 1, Len(s) - 1)) + DigitValue(s[Len(s)])

\* the end of the longest run of digits of s that starts at i (i - 1 if none)
RECURSIVE DigitsEnd(_, _)
DigitsEnd(s, i) ==
    IF i <= Len(s) /\ s[i] \in Digits THEN DigitsEnd(s, i + 1) ELSE i - 1

\* version.replace(/^v/, "")
StripV(s) ==
    IF Len(s) > 0 /\ s[1] = "v" THEN SubSeq(s, 2, Len(s)) ELSE s

\* s has a dot at position i
DotAt(s, i) == i <= Len(s) /\ s[i] = "."

\* The match of \d+\.\d+\.\d+ in s that starts at i: the positions where its
\* three numbers end, or NullRec. \d+ is greedy and is followed by a literal
\* dot, so no backtracking can find a match that the greedy one misses.
TripleAt(s, i) ==
    Bind(DigitsEnd(s, i), LAMBDA e1 :
        IF e1 < i \/ ~DotAt(s, e1 + 1) THEN NullRec
        ELSE Bind(DigitsEnd(s, e1 + 2), LAMBDA e2 :
            IF e2 < e1 + 2 \/ ~DotAt(s, e2 + 1) THEN NullRec
            ELSE Bind(DigitsEnd(s, e2 + 2), LAMBDA e3 :
                IF e3 < e2 + 2 THEN NullRec
                ELSE [e1 |-> e1, e2 |-> e2, e3 |-> e3])))

----------------------------------------------------------------------------
(* version.ts *)

PJ_TARGET_VERSION == <<"1", ".", "1", "1">>

ParsedVersion(normalized, m) ==
    IF m = NullRec THEN NullRec
    ELSE [major |-> ParseInt(SubSeq(normalized, 1, m.e1)),
          minor |-> ParseInt(SubSeq(normalized, m.e1 + 2, m.e2)),
          patch |-> ParseInt(SubSeq(normalized, m.e2 + 2, m.e3)),
          raw |-> normalized]

\* variant: nothing may follow the patch number
parseVersionExact(version) ==
    Bind(StripV(version), LAMBDA normalized :
        Bind(TripleAt(normalized, 1), LAMBDA m :
            IF m # NullRec /\ m.e3 # Len(normalized) THEN NullRec
            ELSE ParsedVersion(normalized, m)))

parseVersion(version) ==
    Bind(StripV(version), LAMBDA normalized :
        ParsedVersion(normalized, TripleAt(normalized, 1)))

\* variant: the pattern is not anchored at the end
parseTargetVersionPrefix(target) ==
    Bind(DigitsEnd(target, 1), LAMBDA e1 :
        IF e1 < 1 \/ ~DotAt(target, e1 + 1) THEN NullRec
        ELSE Bind(DigitsEnd(target, e1 + 2), LAMBDA e2 :
            IF e2 < e1 + 2 THEN NullRec
            ELSE [major |-> ParseInt(SubSeq(target, 1, e1)),
                  minor |-> ParseInt(SubSeq(target, e1 + 2, e2))]))

\* /^(\d+)\.(\d+)$/
parseTargetVersion(target) ==
    Bind(DigitsEnd(target, 1), LAMBDA e1 :
        IF e1 < 1 \/ ~DotAt(target, e1 + 1) THEN NullRec
        ELSE Bind(DigitsEnd(target, e1 + 2), LAMBDA e2 :
            IF e2 < e1 + 2 \/ e2 # Len(target) THEN NullRec
            ELSE [major |-> ParseInt(SubSeq(target, 1, e1)),
                  minor |-> ParseInt(SubSeq(target, e1 + 2, e2))]))

SameMajorMinor(parsed, targetParsed) ==
    IF parsed = NullRec \/ targetParsed = NullRec THEN FALSE
    ELSE /\ parsed.major = targetParsed.major
         /\ parsed.minor = targetParsed.minor

isVersionCompatible(version, target) ==
    SameMajorMinor(parseVersion(version), parseTargetVersion(target))

CompareParsed(parsedA, parsedB) ==
    IF parsedA = NullRec \/ parsedB = NullRec THEN 0
    ELSE IF parsedA.major # parsedB.major
         THEN parsedA.major - parsedB.major
    ELSE IF parsedA.minor # parsedB.minor
         THEN parsedA.minor - parsedB.minor
    ELSE parsedA.patch - parsedB.patch

\* variant: the patch numbers are not compared
compareVersionsSeries(a, b) ==
    Bind(parseVersion(a), LAMBDA parsedA :
        Bind(parseVersion(b), LAMBDA parsedB :
            IF parsedA = NullRec \/ parsedB = NullRec THEN 0
            ELSE IF parsedA.major # parsedB.major
                 THEN parsedA.major - parsedB.major
            ELSE parsedA.minor - parsedB.minor))

compareVersions(a, b) == CompareParsed(parseVersion(a), parseVersion(b))

\* versions.filter((v) => isVersionCompatible(v, target)), order kept
RECURSIVE FilterCompatible(_, _)
FilterCompatible(versions, target) ==
    IF Len(versions) = 0 THEN <<>>
    ELSE IF isVersionCompatible(Head(versions), target)
         THEN <<Head(versions)>> \o FilterCompatible(Tail(versions), target)
         ELSE FilterCompatible(Tail(versions), target)

\* Array.prototype.sort is stable: x goes before the first element that
\* sorts after it under the comparator (a, b) => compareVersions(b, a).
\* variant: x goes before the elements that compare equal to it
RECURSIVE InsertDescendingUnstable(_, _)
InsertDescendingUnstable(x, sorted) ==
    IF Len(sorted) = 0 THEN <<x>>
    ELSE IF compareVersions(Head(sorted), x) > 0
         THEN <<Head(sorted)>> \o InsertDescendingUnstable(x, Tail(sorted))
         ELSE <<x>> \o sorted

RECURSIVE InsertDescending(_, _)
InsertDescending(x, sorted) ==
    IF Len(sorted) = 0 THEN <<x>>
    ELSE IF compareVersions(Head(sorted), x) >= 0
         THEN <<Head(sorted)>> \o InsertDescending(x, Tail(sorted))
         ELSE <<x>> \o sorted

RECURSIVE SortDescending(_)
SortDescending(s) ==
    IF Len(s) = 0 THEN <<>>
    ELSE InsertDescending(s[Len(s)], SortDescending(SubSeq(s, 1, Len(s) - 1)))

findHighestCompatibleVersion(versions, target) ==
    Bind(FilterCompatible(versions, target), LAMBDA compatible :
        IF Len(compatible) = 0 THEN NullStr
        ELSE SortDescending(compatible)[1])

----------------------------------------------------------------------------
(* constants.ts, platform.ts *)

UPDATE_CHECK_INTERVAL_DAYS == 7

\* process.platform and process.arch of the host
processPlatform == host.platform
processArch == host.arch

Host(platform, arch) == [platform |-> platform, arch |-> arch]
LinuxX64 == Host("linux", "x64")

getBinaryName == IF processPlatform = "win32" THEN "pj.exe" ELSE "pj"

\* path.join(getBinaryCacheDir(), getBinaryName())
CacheBinaryPath == "~/.cache/pj-node/bin/pj"
\* what `which pj` prints when a pj is on the PATH
GlobalPath == "/usr/local/bin/pj"
\* the value given to PJ_BINARY_PATH when it is set
OverridePath == "/opt/custom/pj"

Paths == {OverridePath, GlobalPath, CacheBinaryPath}

\* variant: an unknown OS or architecture is taken for linux or amd64
detectPlatformLenient ==
    [os |-> IF processPlatform \in {"darwin", "win32"} THEN processPlatform
            ELSE "linux",
     arch |-> IF processArch = "arm64" THEN "arm64" ELSE "x64",
     pjOs |-> IF processPlatform = "darwin" THEN "darwin"
              ELSE IF processPlatform = "win32" THEN "windows"
              ELSE "linux",
     pjArch |-> IF processArch = "arm64" THEN "arm64" ELSE "amd64"]

detectPlatform ==
    IF \/ processPlatform \notin {"darwin", "linux", "win32"}
       \/ processArch \notin {"x64", "arm64"}
    THEN NullRec
    ELSE [os |-> processPlatform,
          arch |-> processArch,
          pjOs |-> IF processPlatform = "win32" THEN "windows"
                   ELSE processPlatform,
          pjArch |-> IF processArch = "x64" THEN "amd64" ELSE "arm64"]

\* variant: the name is built from Node's names of the OS and architecture
getAssetFilenameNodeNames(version, p) ==
    <<"pj_">> \o StripV(version) \o <<"_", p.os, "_", p.arch, ".tar.gz">>

\* `pj_${versionWithoutV}_${p.pjOs}_${p.pjArch}.tar.gz`; the fixed parts of
\* the name are single tokens of the string
getAssetFilename(version, p) ==
    <<"pj_">> \o StripV(version) \o <<"_", p.pjOs, "_", p.pjArch, ".tar.gz">>

----------------------------------------------------------------------------
(* The files and the binaries in them *)

NoFile == [exists |-> FALSE]

\* An executable file: its mode and what `<file> --version` prints on
\* stdout (NullStr when the run fails or times out). origin is not part of
\* the file: it names the release whose archive the file was extracted from
\* (External for a file the manager did not write).
File(exec, out, origin) ==
    [exists |-> TRUE, exec |-> exec, out |-> out, origin |-> origin]

\* "pj version X" (each word is one token of the string)
VersionOutput(v) == <<"pj", " ", "version", " ">> \o v

\* The first match of /(?:pj\s+)?(?:version\s+)?v?(\d+\.\d+\.\d+)/i in out:
\* its group 1. The optional prefixes hold no digit, so group 1 is the
\* leftmost match of \d+\.\d+\.\d+.
RECURSIVE FirstTriple(_, _)
FirstTriple(out, i) ==
    IF i > Len(out) THEN NullStr
    ELSE Bind(TripleAt(out, i), LAMBDA m :
             IF m = NullRec THEN FirstTriple(out, i + 1)
             ELSE SubSeq(out, i, m.e3))

\* The manager's functions take the mutable world w (files, directory,
\* archives, metadata file, in-memory path, the log of what the call did)
\* and return [w, ok, val, err]: the world after, whether the function
\* returned (ok) or threw (err), and the value returned.
Ret(w, val) == [w |-> w, ok |-> TRUE, val |-> val, err |-> "none"]
Throw(w, err) == [w |-> w, ok |-> FALSE, val |-> Null, err |-> err]
Log(w, event) == [w EXCEPT !.log = Append(@, event)]

\* execa(binaryPath, ["--version"]) and the match on its stdout
FileVersion(f) ==
    IF ~f.exists \/ (processPlatform # "win32" /\ ~f.exec) \/ f.out = NullStr
    THEN NullStr
    ELSE FirstTriple(f.out, 1)

getVersion(w, binaryPath) == FileVersion(w.files[binaryPath])

\* variant: a file is taken as valid once it can be executed
FileValidUnchecked(f) ==
    /\ f.exists
    /\ (processPlatform = "win32" \/ f.exec)

\* fs.access(binaryPath, X_OK), then getVersion
FileValid(f) ==
    /\ f.exists
    /\ (processPlatform = "win32" \/ f.exec)
    /\ FileVersion(f) # NullStr

isValidBinary(w, binaryPath) == FileValid(w.files[binaryPath])

\* `which pj`: the first executable named pj on the PATH
WhichPj(w) ==
    IF w.files[GlobalPath].exists /\ w.files[GlobalPath].exec
    THEN GlobalPath ELSE Null

\* variant: any version a binary reports is accepted
CompatibleVersionAny(version) == version # NullStr

\* version && isVersionCompatible(version, PJ_TARGET_VERSION)
CompatibleVersion(version) ==
    version # NullStr /\ isVersionCompatible(version, PJ_TARGET_VERSION)

findGlobalBinary(w) ==
    Bind(WhichPj(w), LAMBDA binaryPath :
        IF binaryPath = Null THEN Ret(Log(w, "which"), Null)
        ELSE IF ~isValidBinary(w, binaryPath) THEN Ret(Log(w, "which"), Null)
        ELSE IF ~CompatibleVersion(getVersion(w, binaryPath))
             THEN Ret(Log(w, "which"), Null)
             ELSE Ret(Log(w, "which"), binaryPath))

\* a valid binary at binaryPath whose version is compatible with the target
Usable(w, binaryPath) ==
    /\ isValidBinary(w, binaryPath)
    /\ CompatibleVersion(getVersion(w, binaryPath))

getCachedBinaryPath(w) ==
    IF w.mem # Null /\ Usable(w, w.mem)
    THEN Ret(Log(w, "cacheCheck"), w.mem)
    ELSE IF Usable(w, CacheBinaryPath)
         THEN Ret([Log(w, "cacheCheck") EXCEPT !.mem = CacheBinaryPath],
                  CacheBinaryPath)
         ELSE Ret([Log(w, "cacheCheck") EXCEPT !.mem = Null], Null)

----------------------------------------------------------------------------
(* Cache Metadata *)

\* the clock is advanced by these many days at a time, up to MaxNow
ClockSteps == {7}
MaxNow == 7

\* metadata.json: absent, unparsable, or the JSON of a CacheMetadata. A
\* timestamp is the day it names: toISOString and new Date(...) are exact
\* inverses on the clock's values. InvalidDate is a string that new Date
\* cannot parse (getTime() is NaN).
InvalidDate == -1
CorruptMetadata == [exists |-> TRUE, json |-> FALSE]
MetadataJson(m) == [exists |-> TRUE, json |-> TRUE, data |-> m]

CacheMetadata(version, installedAt, lastUpdateCheck) ==
    [version |-> version, installedAt |-> installedAt,
     lastUpdateCheck |-> lastUpdateCheck, source |-> "download"]

getMetadata(w) ==
    IF w.meta.exists /\ w.meta.json THEN w.meta.data ELSE NullRec

saveMetadata(w, metadata, fault) ==
    IF fault = "saveMetadata" THEN Throw(Log(w, "saveMetadata"), "FsError")
    ELSE Ret([Log(w, "saveMetadata") EXCEPT !.meta = MetadataJson(metadata)],
             Null)

\* variant: due only after more than the interval
PollDueStrict(metadata, today) ==
    IF metadata = NullRec THEN TRUE
    ELSE IF metadata.lastUpdateCheck = InvalidDate THEN FALSE
    ELSE today - metadata.lastUpdateCheck > UPDATE_CHECK_INTERVAL_DAYS

\* daysSinceCheck >= UPDATE_CHECK_INTERVAL_DAYS; NaN >= n is false
PollDue(metadata, today) ==
    IF metadata = NullRec THEN TRUE
    ELSE IF metadata.lastUpdateCheck = InvalidDate THEN FALSE
    ELSE today - metadata.lastUpdateCheck >= UPDATE_CHECK_INTERVAL_DAYS

shouldCheckForUpdate(w) ==
    Ret(Log(w, "getMetadata"), PollDue(getMetadata(w), w.clock))

----------------------------------------------------------------------------
(* The release registry *)

\* What await fetch(...) throws when the promise rejects: a TypeError when
\* the connection fails, the TimeoutError of AbortSignal.timeout when the
\* request takes too long. No registry call has a try around its fetch.
FetchRejected == "FetchRejected"

\* what pipeline(...) rejects with when the body stream or the file stream
\* fails
StreamError == "StreamError"

\* the errors the manager constructs itself: new PjBinaryError(...)
PjBinaryError ==
    {"InvalidOverride", "RegistryError", "NoCompatibleRelease",
     "UnsupportedPlatform", "NoMatchingAsset", "DownloadError",
     "VerificationFailed"}

parseRelease(data) ==
    [tagName |-> data.tag_name,
     version |-> StripV(data.tag_name),
     prerelease |-> data.prerelease,
     assets |-> data.assets]

RECURSIVE MapParseRelease(_)
MapParseRelease(rs) ==
    IF Len(rs) = 0 THEN <<>>
    ELSE <<parseRelease(Head(rs))>> \o MapParseRelease(Tail(rs))

NotPrerelease(release) == ~release.prerelease

\* variant: the listing is returned with its prereleases
getAllReleasesUnfiltered(w, fault) ==
    IF fault = "listReleasesFetch"
    THEN Throw(Log(w, "listReleases"), FetchRejected)
    ELSE IF fault = "listReleases"
    THEN Throw(Log(w, "listReleases"), "RegistryError")
    ELSE Ret(Log(w, "listReleases"), MapParseRelease(registry))

getAllReleases(w, fault) ==
    IF fault = "listReleasesFetch"
    THEN Throw(Log(w, "listReleases"), FetchRejected)
    ELSE IF fault = "listReleases"
    THEN Throw(Log(w, "listReleases"), "RegistryError")
    ELSE Ret(Log(w, "listReleases"),
             MapParseRelease(SelectSeq(registry, NotPrerelease)))

\* releases.find((r) => r.version === v)
RECURSIVE FindVersion(_, _)
FindVersion(releases, v) ==
    IF Len(releases) = 0 THEN NullRec
    ELSE IF Head(releases).version = v THEN Head(releases)
    ELSE FindVersion(Tail(releases), v)

VersionsOf(releases) == [i \in 1..Len(releases) |-> releases[i].version]

\* versions.join(", ")
RECURSIVE JoinVersions(_)
JoinVersions(versions) ==
    IF Len(versions) = 0 THEN <<>>
    ELSE IF Len(versions) = 1 THEN versions[1]
    ELSE versions[1] \o <<", ">> \o JoinVersions(Tail(versions))

\* `No compatible pj release found for version range ${target}.x. ` +
\* `Available versions: ${versions.join(", ")}`
NoCompatibleMessage(versions) ==
    <<"No compatible pj release found for version range ">> \o
        PJ_TARGET_VERSION \o <<".x", ". ", "Available versions: ">> \o
        JoinVersions(versions)

\* variant: with no compatible release, the newest listed release is taken
getCompatibleReleaseOrNewest(w, fault) ==
    Bind(getAllReleases(w, fault), LAMBDA r :
        IF ~r.ok THEN r
        ELSE Bind(findHighestCompatibleVersion(VersionsOf(r.val),
                                               PJ_TARGET_VERSION),
                  LAMBDA compatibleVersion :
            IF compatibleVersion = NullStr
            THEN IF Len(r.val) = 0 THEN Throw(r.w, "NoCompatibleRelease")
                 ELSE Ret(r.w, r.val[1])
            ELSE Ret(r.w, FindVersion(r.val, compatibleVersion))))

getCompatibleRelease(w, fault) ==
    Bind(getAllReleases(w, fault), LAMBDA r :
        IF ~r.ok THEN r
        ELSE Bind(findHighestCompatibleVersion(VersionsOf(r.val),
                                               PJ_TARGET_VERSION),
                  LAMBDA compatibleVersion :
            IF compatibleVersion = NullStr
            THEN Throw([r.w EXCEPT !.detail =
                            NoCompatibleMessage(VersionsOf(r.val))],
                       "NoCompatibleRelease")
            ELSE Bind(FindVersion(r.val, compatibleVersion), LAMBDA release :
                IF release = NullRec THEN Throw(r.w, "RegistryError")
                ELSE Ret(r.w, release))))

\* GET .../releases/latest: the most recent release that is not a prerelease
getLatestRelease(w, fault) ==
    Bind(SelectSeq(registry, NotPrerelease), LAMBDA stable :
        IF fault = "getLatestFetch"
        THEN Throw(Log(w, "getLatest"), FetchRejected)
        ELSE IF fault = "getLatest" \/ Len(stable) = 0
        THEN Throw(Log(w, "getLatest"), "RegistryError")
        ELSE Ret(Log(w, "getLatest"), parseRelease(stable[1])))

\* version.startsWith("v") ? version : `v${version}`
TagOf(version) ==
    IF Len(version) > 0 /\ version[1] = "v" THEN version
    ELSE <<"v">> \o version

\* the release that has this tag, prerelease or not
RECURSIVE FindTag(_, _)
FindTag(releases, tag) ==
    IF Len(releases) = 0 THEN NullRec
    ELSE IF Head(releases).tag_name = tag THEN Head(releases)
    ELSE FindTag(Tail(releases), tag)

getRelease(w, version, fault) ==
    Bind(FindTag(registry, TagOf(version)), LAMBDA data :
        IF fault = "getReleaseFetch"
        THEN Throw(Log(w, "getRelease"), FetchRejected)
        ELSE IF fault = "getRelease" \/ data = NullRec
        THEN Throw(Log(w, "getRelease"), "RegistryError")
        ELSE Ret(Log(w, "getRelease"), parseRelease(data)))

----------------------------------------------------------------------------
(* BinaryManager: install, update, resolve *)

\* BinaryOptions: force, and version (a string, or NullStr for undefined)
Options(force, version) == [force |-> force, version |-> version]

\* variant: any asset of the release is taken, whatever its name
FindAssetAny(release, assetName) ==
    IF release.assets # {}
    THEN CHOOSE a \in release.assets : TRUE
    ELSE NullRec

\* release.assets.find((a) => a.name === assetName)
FindAsset(release, assetName) ==
    IF \E a \in release.assets : a.name = assetName
    THEN CHOOSE a \in release.assets : a.name = assetName
    ELSE NullRec

\* variant: the destination file is opened before the response is looked at
downloadAssetFileFirst(w, asset, fault) ==
    IF fault \in {"downloadHttp", "downloadEmpty"}
    THEN Throw([Log(w, "downloadAsset") EXCEPT !.tars = @ \cup {asset.name}],
               "DownloadError")
    ELSE IF fault = "downloadStream"
    THEN Throw([Log(w, "downloadAsset") EXCEPT !.tars = @ \cup {asset.name}],
               StreamError)
    ELSE Ret([Log(w, "downloadAsset") EXCEPT !.tars = @ \cup {asset.name}],
             Null)

\* downloadAsset: a response that is not ok, or one without a body, throws a
\* PjBinaryError before createWriteStream(destPath) is reached; a stream
\* that breaks makes pipeline reject with the stream's own error and leaves
\* what createWriteStream has written so far; the file stream fails without
\* a file when the cache directory is not there
downloadAsset(w, asset, fault) ==
    IF fault \in {"downloadHttp", "downloadEmpty"}
    THEN Throw(Log(w, "downloadAsset"), "DownloadError")
    ELSE IF fault = "downloadStream"
    THEN Throw([Log(w, "downloadAsset") EXCEPT !.tars = @ \cup {asset.name}],
               StreamError)
    ELSE IF ~w.dir
    THEN Throw(Log(w, "downloadAsset"), StreamError)
    ELSE Ret([Log(w, "downloadAsset") EXCEPT !.tars = @ \cup {asset.name}],
             Null)

\* path.basename(entryPath): an entry path is the sequence of its components
Basename(entryPath) == entryPath[Len(entryPath)]

\* variant: the archive is extracted without a filter
ExtractAll(entries) == entries

\* filter: (entryPath) => path.basename(entryPath) === binaryName
ExtractFilter(entries) == {e \in entries : Basename(e) = getBinaryName}

\* tar.extract with that filter and cwd cacheDir: the entries that pass are
\* written under the cache directory at their paths, so the entry binaryName
\* at the top of the archive, if there is one, replaces the cached binary.
\* A broken archive makes it throw before or after it has started to write,
\* an archive file that is not there before it writes anything.
tarExtract(w, release, asset, fault) ==
    IF fault = "extractEarly" \/ asset.name \notin w.tars
    THEN Throw(Log(w, "extract"), "ExtractError")
    ELSE Bind(ExtractFilter(asset.payload.entries), LAMBDA written :
        IF fault = "extractPartial"
        THEN Throw([Log(w, "extract") EXCEPT
                        !.files[CacheBinaryPath] =
                            File(FALSE, NullStr, release.tagName),
                        !.extracted = written],
                   "ExtractError")
        ELSE IF <<getBinaryName>> \in written
        THEN Ret([Log(w, "extract") EXCEPT
                      !.files[CacheBinaryPath] =
                          File(TRUE, asset.payload.out, release.tagName),
                      !.extracted = written],
                 Null)
        ELSE Ret([Log(w, "extract") EXCEPT !.extracted = written], Null))

\* fs.unlink(tarballPath): ENOENT when the file is not there
unlinkTarball(w, asset, fault) ==
    IF fault = "unlink" \/ asset.name \notin w.tars
    THEN Throw(Log(w, "unlink"), "FsError")
    ELSE Ret([Log(w, "unlink") EXCEPT !.tars = @ \ {asset.name}], Null)

\* if (process.platform !== "win32") fs.chmod(binaryPath, 0o755)
chmodBinary(w, binaryPath, fault) ==
    IF processPlatform = "win32" THEN Ret(w, Null)
    ELSE IF fault = "chmod" \/ ~w.files[binaryPath].exists
    THEN Throw(Log(w, "chmod"), "FsError")
    ELSE Ret([Log(w, "chmod") EXCEPT !.files[binaryPath].exec = TRUE], Null)

\* variant: the metadata is written before the binary is verified
VerifyAndSaveMetadataFirst(w, release, binaryPath, fault) ==
    Bind(saveMetadata(w, CacheMetadata(release.version, w.clock, w.clock),
                      fault),
         LAMBDA m :
            IF ~m.ok THEN m
            ELSE IF ~isValidBinary(m.w, binaryPath)
            THEN Throw(Log(m.w, "verify"), "VerificationFailed")
            ELSE Ret([Log(m.w, "verify") EXCEPT !.mem = binaryPath,
                                               !.release = release.tagName],
                     binaryPath))

\* variant: the extracted binary is recorded without being verified
VerifyAndSaveUnverified(w, release, binaryPath, fault) ==
    Bind(saveMetadata(Log(w, "verify"),
                      CacheMetadata(release.version, w.clock, w.clock),
                      fault),
         LAMBDA m :
            IF ~m.ok THEN m
            ELSE Ret([m.w EXCEPT !.mem = binaryPath,
                                 !.release = release.tagName],
                     binaryPath))

\* The second new Date() of the object literal passed to saveMetadata: the
\* clock may have advanced since the first one was evaluated.
SecondRead(w, fault) ==
    IF fault = "clockAdvance"
    THEN w.clock + (CHOOSE d \in ClockSteps : TRUE)
    ELSE w.clock

\* downloadBinary from "Verify the binary" on
VerifyAndSave(w, release, binaryPath, fault) ==
    IF ~isValidBinary(w, binaryPath)
    THEN Throw(Log(w, "verify"), "VerificationFailed")
    ELSE Bind(SecondRead(w, fault), LAMBDA later :
        Bind(saveMetadata([Log(w, "verify") EXCEPT !.clock = later],
                          CacheMetadata(release.version, w.clock, later),
                          fault),
             LAMBDA m :
            IF ~m.ok THEN m
            ELSE Ret([m.w EXCEPT !.mem = binaryPath,
                                 !.release = release.tagName],
                     binaryPath)))

\* downloadBinary from "Extract the binary" on
InstallFrom(w, release, asset, fault) ==
    Bind(tarExtract(w, release, asset, fault), LAMBDA x :
        IF ~x.ok THEN x
        ELSE Bind(unlinkTarball(x.w, asset, fault), LAMBDA u :
            IF ~u.ok THEN u
            ELSE Bind(chmodBinary(u.w, CacheBinaryPath, fault), LAMBDA c :
                IF ~c.ok THEN c
                ELSE VerifyAndSave(c.w, release, CacheBinaryPath, fault))))

\* variant: a download that fails is tried once more
FetchAndInstallRetry(w, release, asset, fault) ==
    IF fault = "mkdir" THEN Throw(Log(w, "mkdir"), "FsError")
    ELSE Bind(downloadAsset([Log(w, "mkdir") EXCEPT !.dir = TRUE],
                            asset, fault),
              LAMBDA d :
            IF d.ok THEN InstallFrom(d.w, release, asset, fault)
            ELSE Bind(downloadAsset(d.w, asset, "none"), LAMBDA again :
                     InstallFrom(again.w, release, asset, "none")))

\* downloadBinary from "Create cache directory" on
FetchAndInstall(w, release, asset, fault) ==
    IF fault = "mkdir" THEN Throw(Log(w, "mkdir"), "FsError")
    ELSE Bind(downloadAsset([Log(w, "mkdir") EXCEPT !.dir = TRUE],
                            asset, fault),
              LAMBDA d :
            IF ~d.ok THEN d ELSE InstallFrom(d.w, release, asset, fault))

\* variant: with no version pinned, the registry's latest release
SelectReleaseLatest(w, options, fault) ==
    IF options.version # NullStr /\ Len(options.version) > 0
    THEN getRelease(w, options.version, fault)
    ELSE getLatestRelease(w, fault)

\* options?.version ? getRelease(options.version) : getCompatibleRelease()
SelectRelease(w, options, fault) ==
    IF options.version # NullStr /\ Len(options.version) > 0
    THEN getRelease(w, options.version, fault)
    ELSE getCompatibleRelease(w, fault)

\* `No binary available for ${pjOs}/${pjArch}. Expected asset: ${assetName}`
NoAssetMessage(platform, assetName) ==
    <<"No binary available for ", platform.pjOs, "/", platform.pjArch, ". ",
      "Expected asset: ">> \o assetName

\* downloadBinary once the release and the platform are known
InstallAsset(w, release, platform, fault) ==
    Bind(getAssetFilename(release.version, platform), LAMBDA assetName :
        Bind(FindAsset(release, assetName), LAMBDA asset :
            IF asset = NullRec
            THEN Throw([w EXCEPT !.detail =
                            NoAssetMessage(platform, assetName)],
                       "NoMatchingAsset")
            ELSE FetchAndInstall(w, release, asset, fault)))

downloadBinary(w, options, fault) ==
    Bind(SelectRelease(w, options, fault), LAMBDA r :
        IF ~r.ok THEN r
        ELSE Bind(detectPlatform, LAMBDA platform :
            IF platform = NullRec THEN Throw(r.w, "UnsupportedPlatform")
            ELSE InstallAsset(r.w, r.val, platform, fault)))

\* variant: the update installs whatever the metadata says
UpdateToAlways(w, compatible, metadata, options, fault) ==
    downloadBinary(w, [options EXCEPT !.version = compatible.version], fault)

\* variant: the caller's options are passed on as they are
UpdateToUnpinned(w, compatible, metadata, options, fault) ==
    IF /\ metadata # NullRec
       /\ metadata.version = compatible.version
       /\ ~options.force
    THEN Bind(saveMetadata(w,
                           [metadata EXCEPT !.lastUpdateCheck = w.clock],
                           fault),
              LAMBDA m :
            IF ~m.ok THEN m
            ELSE Bind(getCachedBinaryPath(m.w), LAMBDA c :
                IF c.val # Null THEN c
                ELSE downloadBinary(c.w, options, fault)))
    ELSE downloadBinary(w, options, fault)

\* updateBinary after the best compatible release is known
UpdateTo(w, compatible, metadata, options, fault) ==
    IF /\ metadata # NullRec
       /\ metadata.version = compatible.version
       /\ ~options.force
    THEN Bind(saveMetadata(w,
                           [metadata EXCEPT !.lastUpdateCheck = w.clock],
                           fault),
              LAMBDA m :
            IF ~m.ok THEN m
            ELSE Bind(getCachedBinaryPath(m.w), LAMBDA c :
                IF c.val # Null THEN c
                ELSE downloadBinary(c.w,
                         [options EXCEPT !.version = compatible.version],
                         fault)))
    ELSE downloadBinary(w, [options EXCEPT !.version = compatible.version],
                        fault)

\* variant: the time of the check is recorded before the registry is asked
updateBinaryStampFirst(w, options, fault) ==
    Bind(getMetadata(w), LAMBDA metadata :
        IF metadata = NullRec
        THEN Bind(getCompatibleRelease(w, fault), LAMBDA r :
            IF ~r.ok THEN r
            ELSE UpdateTo(Log(r.w, "getMetadata"), r.val, getMetadata(r.w),
                          options, fault))
        ELSE Bind(saveMetadata(w, [metadata EXCEPT
                                      !.lastUpdateCheck = w.clock], "none"),
                  LAMBDA s :
            Bind(getCompatibleRelease(s.w, fault), LAMBDA r :
                IF ~r.ok THEN r
                ELSE UpdateTo(Log(r.w, "getMetadata"), r.val,
                              getMetadata(r.w), options, fault))))

updateBinary(w, options, fault) ==
    Bind(getCompatibleRelease(w, fault), LAMBDA r :
        IF ~r.ok THEN r
        ELSE UpdateTo(Log(r.w, "getMetadata"), r.val, getMetadata(r.w),
                      options, fault))

\* try { await this.updateBinary(options) } catch { }: what is caught is
\* noted in the world
TryUpdate(w, options, fault) ==
    Bind(updateBinary(w, options, fault), LAMBDA u :
        IF u.ok THEN u.w ELSE [u.w EXCEPT !.caught = u.err])

\* variant: a failure of the update is not caught
ReturnCachedUncaught(w, cachedPath, options, fault) ==
    Bind(shouldCheckForUpdate(w), LAMBDA s :
        IF s.val /\ options.version = NullStr
        THEN Bind(updateBinary(s.w, options, fault), LAMBDA u :
                 IF u.ok THEN Ret(u.w, cachedPath) ELSE u)
        ELSE Ret(s.w, cachedPath))

\* variant: the update is attempted with a pinned version too
ReturnCachedPinned(w, cachedPath, options, fault) ==
    Bind(shouldCheckForUpdate(w), LAMBDA s :
        IF s.val
        THEN Ret(TryUpdate(s.w, options, fault), cachedPath)
        ELSE Ret(s.w, cachedPath))

\* getBinaryPath once a usable cached binary is found and force is not set
ReturnCached(w, cachedPath, options, fault) ==
    Bind(shouldCheckForUpdate(w), LAMBDA s :
        IF s.val /\ options.version = NullStr
        THEN Ret(TryUpdate(s.w, options, fault), cachedPath)
        ELSE Ret(s.w, cachedPath))

\* variant: the cache is looked up before the PATH
ResolveCacheFirst(w, options, fault) ==
    Bind(getCachedBinaryPath(w), LAMBDA c :
        IF c.val # Null /\ ~options.force
        THEN ReturnCached(c.w, c.val, options, fault)
        ELSE Bind(findGlobalBinary(c.w), LAMBDA g :
            IF g.val # Null THEN g
            ELSE downloadBinary(g.w, options, fault)))

\* getBinaryPath when PJ_BINARY_PATH is not set
ResolveWithoutOverride(w, options, fault) ==
    Bind(findGlobalBinary(w), LAMBDA g :
        IF g.val # Null THEN g
        ELSE Bind(getCachedBinaryPath(g.w), LAMBDA c :
            IF c.val # Null /\ ~options.force
            THEN ReturnCached(c.w, c.val, options, fault)
            ELSE downloadBinary(c.w, options, fault)))

\* variant: an invalid override is skipped
ResolveOverrideLenient(w, options, fault) ==
    IF isValidBinary(w, envPath) THEN Ret(w, envPath)
    ELSE ResolveWithoutOverride(w, options, fault)

\* getBinaryPath when PJ_BINARY_PATH is set
ResolveOverride(w, options, fault) ==
    IF isValidBinary(w, envPath) THEN Ret(w, envPath)
    ELSE Throw(w, "InvalidOverride")

getBinaryPath(w, options, fault) ==
    IF envPath # Null THEN ResolveOverride(w, options, fault)
    ELSE ResolveWithoutOverride(w, options, fault)

\* BinaryStatus
Status(available, path, version, source) ==
    [available |-> available, path |-> path, version |-> version,
     source |-> source]

\* variant: the status is found by resolving the binary as getBinaryPath does
getStatusResolving(w) ==
    Bind(getBinaryPath(w, Options(FALSE, NullStr), "none"), LAMBDA r :
        IF r.ok
        THEN Ret(r.w, Status(TRUE, r.val, getVersion(r.w, r.val), "cache"))
        ELSE Ret(r.w, Status(FALSE, Null, NullStr, Null)))

getStatus(w) ==
    IF envPath # Null /\ isValidBinary(w, envPath)
    THEN Ret(w, Status(TRUE, envPath, getVersion(w, envPath), "env"))
    ELSE Bind(findGlobalBinary(w), LAMBDA g :
        IF g.val # Null
        THEN Ret(g.w, Status(TRUE, g.val, getVersion(g.w, g.val), "global"))
        ELSE Bind(getCachedBinaryPath(g.w), LAMBDA c :
            IF c.val # Null
            THEN Ret(c.w, Status(TRUE, c.val, getVersion(c.w, c.val),
                                 "cache"))
            ELSE Ret(c.w, Status(FALSE, Null, NullStr, Null))))

\* variant: only the archives are removed from the cache directory
rmCacheDirArchivesOnly(w, fault) ==
    IF fault = "rmCacheDir" THEN Log(w, "rmCacheDir")
    ELSE [Log(w, "rmCacheDir") EXCEPT !.tars = {}]

\* fs.rm(cacheDir, recursive, force), caught
rmCacheDir(w, fault) ==
    IF fault = "rmCacheDir" THEN Log(w, "rmCacheDir")
    ELSE [Log(w, "rmCacheDir") EXCEPT !.files[CacheBinaryPath] = NoFile,
                                      !.tars = {}, !.dir = FALSE]

\* fs.unlink(metadataPath), caught
unlinkMetadata(w, fault) ==
    IF fault = "unlinkMetadata" THEN Log(w, "unlinkMetadata")
    ELSE [Log(w, "unlinkMetadata") EXCEPT !.meta = NoFile]

\* variant: a failure to remove the cache directory is not caught
clearCacheUncaught(w, fault) ==
    IF fault = "rmCacheDir" THEN Throw(Log(w, "rmCacheDir"), "FsError")
    ELSE Ret([unlinkMetadata(rmCacheDir(w, fault), fault) EXCEPT !.mem = Null],
             Null)

clearCache(w, fault) ==
    Ret([unlinkMetadata(rmCacheDir(w, fault), fault) EXCEPT !.mem = Null],
        Null)

----------------------------------------------------------------------------
(* The environment the manager runs in *)

v1_10_4 == <<"1", ".", "1", "0", ".", "4">>
v1_11_0 == <<"1", ".", "1", "1", ".", "0">>
v1_11_2 == <<"1", ".", "1", "1", ".", "2">>
v1_11_3 == <<"1", ".", "1", "1", ".", "3">>
v1_11_4 == <<"1", ".", "1", "1", ".", "4">>
v1_12_0 == <<"1", ".", "1", "2", ".", "0">>

External == <<"external">>
ExternalBinary(v) == File(TRUE, VersionOutput(v), External)
BrokenBinary == File(TRUE, NullStr, External)

\* what an archive holds: its entries, and what the pj in it prints
GoodPayload(v) ==
    [entries |-> {<<"pj">>, <<"README.md">>, <<"LICENSE">>},
     out |-> VersionOutput(v)]
BrokenPayload == [entries |-> {<<"pj">>, <<"README.md">>}, out |-> NullStr]
\* no pj at the top of the archive, one in a directory of it
NoBinaryPayload ==
    [entries |-> {<<"README.md">>, <<"completions", "pj">>}, out |-> NullStr]

\* the archive of a release built for linux on amd64
Asset(v, payload) ==
    [name |-> <<"pj_">> \o v \o <<"_", "linux", "_", "amd64", ".tar.gz">>,
     payload |-> payload]

\* the asset of a release built for another platform only
OtherPlatformAsset(v) ==
    [name |-> <<"pj_">> \o v \o <<"_", "darwin", "_", "arm64", ".tar.gz">>,
     payload |-> GoodPayload(v)]

\* a release as the registry's JSON gives it
Release(v, prerelease, assets) ==
    [tag_name |-> <<"v">> \o v, prerelease |-> prerelease, assets |-> assets]

GoodRelease(v, prerelease) ==
    Release(v, prerelease, {Asset(v, GoodPayload(v))})

ListingCurrent ==
    <<GoodRelease(v1_12_0, FALSE), GoodRelease(v1_11_3, TRUE),
      GoodRelease(v1_11_2, FALSE), GoodRelease(v1_11_0, FALSE)>>
ListingIncompatible ==
    <<GoodRelease(v1_12_0, FALSE), GoodRelease(v1_10_4, FALSE)>>
ListingDefective ==
    <<Release(v1_11_2, FALSE, {Asset(v1_11_2, BrokenPayload)}),
      Release(v1_11_0, FALSE, {Asset(v1_11_0, NoBinaryPayload)}),
      Release(v1_12_0, FALSE, {OtherPlatformAsset(v1_12_0)})>>

ListingSingle == <<GoodRelease(v1_11_2, FALSE)>>
ListingPrerelease ==
    <<GoodRelease(v1_11_4, TRUE), GoodRelease(v1_11_2, FALSE)>>

Listings ==
    {ListingCurrent, ListingIncompatible, ListingDefective, ListingSingle,
     ListingPrerelease}

\* the override variable, the file it names, the pj on the PATH
Environment(env, override, global) ==
    [env |-> env, override |-> override, global |-> global]

NoOverrideNoGlobal == Environment(Null, NoFile, NoFile)

Environments ==
    {NoOverrideNoGlobal,
     Environment(Null, NoFile, ExternalBinary(v1_11_0)),
     Environment(Null, NoFile, ExternalBinary(v1_12_0)),
     Environment(OverridePath, ExternalBinary(v1_10_4),
                 ExternalBinary(v1_11_0)),
     Environment(OverridePath, BrokenBinary, ExternalBinary(v1_11_0))}

\* where a run starts: every listing where nothing but the registry can
\* supply a binary, and every environment with the listing of one release
Setups ==
    {[environment |-> NoOverrideNoGlobal, listing |-> l] : l \in Listings}
    \cup {[environment |-> e, listing |-> ListingSingle] : e \in Environments}

\* options.version values that callers pass
VersionOptions == {NullStr, v1_11_0, v1_12_0, <<"v">> \o v1_11_4}

Faults ==
    {"none", "listReleases", "listReleasesFetch", "getRelease",
     "getReleaseFetch", "mkdir", "downloadHttp", "downloadEmpty",
     "downloadStream", "extractEarly", "extractPartial", "unlink", "chmod",
     "saveMetadata", "clockAdvance"}

ClearFaults == {"none", "rmCacheDir", "unlinkMetadata"}

----------------------------------------------------------------------------
(* The state machine *)

World ==
    [files |-> files, dir |-> cacheDirExists, tars |-> tarballs,
     meta |-> metadataFile, mem |-> cachedBinaryPath,
     clock |-> now, log |-> <<>>, release |-> NullStr, caught |-> "none",
     detail |-> <<>>, extracted |-> {}]

NoStatus == Status(FALSE, Null, NullStr, Null)

\* the call made last: what was asked, the fault that struck it, how it
\* ended, what it did
Call(op, options, fault, r, status) ==
    [op |-> op, force |-> options.force, version |-> options.version,
     fault |-> fault, ok |-> r.ok, path |-> IF r.ok THEN r.val ELSE Null,
     err |-> r.err, status |-> status, log |-> r.w.log,
     release |-> r.w.release, caught |-> r.w.caught, due |-> FALSE,
     detail |-> IF r.ok THEN <<>> ELSE r.w.detail,
     extracted |-> r.w.extracted]

NoOptions == Options(FALSE, NullStr)
NoCall ==
    [op |-> "none", force |-> FALSE, version |-> NullStr, fault |-> "none",
     ok |-> TRUE, path |-> Null, err |-> "none", status |-> NoStatus,
     log |-> <<>>, release |-> NullStr, caught |-> "none", due |-> FALSE,
     detail |-> <<>>, extracted |-> {}]

\* no download that reports progress is in flight (no onProgress is passed)
NoDownload == [total |-> 0, body |-> <<>>, seen |-> <<>>, downloaded |-> 0,
               reports |-> <<>>]

Commit(w) ==
    /\ files' = w.files
    /\ cacheDirExists' = w.dir
    /\ tarballs' = w.tars
    /\ metadataFile' = w.meta
    /\ cachedBinaryPath' = w.mem
    /\ now' = w.clock
    /\ UNCHANGED <<calls, host, progress, envPath, registry>>

Init ==
    /\ \E s \in Setups :
        /\ envPath = s.environment.env
        /\ files = [p \in Paths |->
                      IF p = OverridePath THEN s.environment.override
                      ELSE IF p = GlobalPath THEN s.environment.global
                      ELSE NoFile]
        /\ registry = s.listing
    /\ cacheDirExists = FALSE
    /\ tarballs = {}
    /\ metadataFile = NoFile
    /\ cachedBinaryPath = Null
    /\ now = 0
    /\ last = NoCall
    /\ calls = NoCalls
    /\ progress = NoDownload
    /\ host = LinuxX64

\* The operation that fault makes fail. A call runs as it does without the
\* fault until it reaches that operation, so the faults that can strike a
\* call are those of the operations its fault-free run reaches.
FaultOp(fault) ==
    CASE fault \in {"downloadHttp", "downloadEmpty", "downloadStream"}
            -> "downloadAsset"
      [] fault = "listReleasesFetch" -> "listReleases"
      [] fault = "getReleaseFetch" -> "getRelease"
      [] fault \in {"extractEarly", "extractPartial"} -> "extract"
      [] OTHER -> fault

\* The clock can advance between the two reads of an install that reaches
\* its metadata write, as far as the clock goes.
AdvanceMet(log) ==
    /\ \E i \in 1..Len(log) : log[i] = "verify"
    /\ \E d \in ClockSteps : now + d <= MaxNow

FaultsMet(log) ==
    {"none"} \cup
        {f \in Faults \ {"clockAdvance"} :
            \E i \in 1..Len(log) : log[i] = FaultOp(f)} \cup
        {f \in {"clockAdvance"} : AdvanceMet(log)}

\* Calls are made one at a time: a call is made when the result of the
\* one before has been taken (last = NoCall).
Idle == last = NoCall

\* the call ends: its effects are in the world, its result is in last
Deliver(op, options, fault, r, status) ==
    /\ Commit(r.w)
    /\ last' = Call(op, options, fault, r, status)

GetBinaryPath ==
    /\ Idle
    /\ \E force \in BOOLEAN, version \in VersionOptions :
        \E r0 \in {getBinaryPath(World, Options(force, version), "none")} :
            \E fault \in FaultsMet(r0.w.log) :
                \E r \in {IF fault = "none" THEN r0
                          ELSE getBinaryPath(World, Options(force, version),
                                             fault)} :
                    Deliver("getBinaryPath", Options(force, version), fault,
                            r, NoStatus)

DownloadBinary ==
    /\ Idle
    /\ \E version \in VersionOptions :
        \E r0 \in {downloadBinary(World, Options(FALSE, version), "none")} :
            \E fault \in FaultsMet(r0.w.log) :
                \E r \in {IF fault = "none" THEN r0
                          ELSE downloadBinary(World, Options(FALSE, version),
                                              fault)} :
                    Deliver("downloadBinary", Options(FALSE, version), fault,
                            r, NoStatus)

UpdateBinary ==
    /\ Idle
    /\ \E force \in BOOLEAN, version \in {NullStr, v1_11_0} :
        \E r0 \in {updateBinary(World, Options(force, version), "none")} :
            \E fault \in FaultsMet(r0.w.log) :
                \E r \in {IF fault = "none" THEN r0
                          ELSE updateBinary(World, Options(force, version),
                                            fault)} :
                    Deliver("updateBinary", Options(force, version), fault,
                            r, NoStatus)

GetStatus ==
    /\ Idle
    /\ \E r \in {getStatus(World)} :
        Deliver("getStatus", NoOptions, "none", [r EXCEPT !.val = Null],
                r.val)

ClearCache ==
    /\ Idle
    /\ \E fault \in ClearFaults :
        \E r \in {clearCache(World, fault)} :
            Deliver("clearCache", NoOptions, fault, r, NoStatus)

\* the caller takes the result
Return ==
    /\ ~Idle
    /\ last' = NoCall
    /\ UNCHANGED <<calls, host, progress, envPath, files, cacheDirExists, tarballs, metadataFile,
                   cachedBinaryPath, registry, now>>

\* time passes
Tick ==
    /\ Idle
    /\ \E d \in ClockSteps : now + d <= MaxNow /\ now' = now + d
    /\ UNCHANGED <<calls, host, progress, envPath, files, cacheDirExists, tarballs, metadataFile,
                   cachedBinaryPath, registry, last>>

Next ==
    \/ GetBinaryPath
    \/ DownloadBinary
    \/ UpdateBinary
    \/ GetStatus
    \/ ClearCache
    \/ Return
    \/ Tick

Spec == Init /\ [][Next]_vars

----------------------------------------------------------------------------
(* The poll policy on its own: shouldCheckForUpdate applied to every        *)
(* metadata file and every day of the clock                                 *)

MaxPollDay == 9

\* values of lastUpdateCheck a metadata file can hold
PollDates == {InvalidDate} \cup (0..MaxPollDay)

MetadataContents ==
    {NoFile, CorruptMetadata} \cup
        {MetadataJson(CacheMetadata(v1_11_2, 0, d)) : d \in PollDates}

InitPoll ==
    /\ envPath = Null
    /\ files = [p \in Paths |-> NoFile]
    /\ registry = ListingSingle
    /\ cacheDirExists = TRUE
    /\ tarballs = {}
    /\ metadataFile \in MetadataContents
    /\ cachedBinaryPath = Null
    /\ now \in 0..MaxPollDay
    /\ last = NoCall
    /\ calls = NoCalls
    /\ progress = NoDownload
    /\ host = LinuxX64

ShouldCheckForUpdate ==
    /\ Idle
    /\ \E r \in {shouldCheckForUpdate(World)} :
        /\ Commit(r.w)
        /\ last' = [Call("shouldCheckForUpdate", NoOptions, "none",
                         [r EXCEPT !.val = Null], NoStatus)
                        EXCEPT !.due = r.val]

TickPoll ==
    /\ Idle
    /\ now < MaxPollDay
    /\ now' = now + 1
    /\ UNCHANGED <<calls, host, progress, envPath, files, cacheDirExists, tarballs, metadataFile,
                   cachedBinaryPath, registry, last>>

NextPoll ==
    \/ ShouldCheckForUpdate
    \/ Return
    \/ TickPoll

SpecPoll == InitPoll /\ [][NextPoll]_vars

----------------------------------------------------------------------------
(* The manager on a host that detectPlatform does not support: another OS,  *)
(* another architecture, or both. The cache directory may hold a pj that    *)
(* was put there by other means.                                            *)

UnsupportedHosts ==
    {Host("sunos", "x64"), Host("linux", "ia32"), Host("freebsd", "mips")}

InitHost ==
    /\ host \in UnsupportedHosts
    /\ \E e \in Environments, cached \in {NoFile, ExternalBinary(v1_11_2)} :
        /\ envPath = e.env
        /\ files = [p \in Paths |->
                      IF p = OverridePath THEN e.override
                      ELSE IF p = GlobalPath THEN e.global
                      ELSE cached]
        /\ cacheDirExists = cached.exists
    /\ registry = ListingSingle
    /\ tarballs = {}
    /\ metadataFile = NoFile
    /\ cachedBinaryPath = Null
    /\ now = 0
    /\ last = NoCall
    /\ calls = NoCalls
    /\ progress = NoDownload

SpecHost == InitHost /\ [][Next]_vars

----------------------------------------------------------------------------
(* The validity check on its own: isValidBinary and getVersion applied to   *)
(* every file at the override path: absent, with and without the execute    *)
(* bit, its run failing or printing any short output                        *)

MaxOut == 6

\* the characters of an output: a digit, the dot, a letter
OutputTokens == {"1", ".", "v"}

RECURSIVE OutputsOfLen(_)
OutputsOfLen(n) ==
    IF n = 0 THEN {<<>>}
    ELSE {Append(o, t) : o \in OutputsOfLen(n - 1), t \in OutputTokens}

\* stdout of `<file> --version`, or NullStr when the run fails or times out
BinaryOutputs == {NullStr} \cup UNION {OutputsOfLen(n) : n \in 0..MaxOut}

BinaryFiles ==
    {NoFile} \cup
        {File(exec, out, External) : exec \in BOOLEAN, out \in BinaryOutputs}

InitBinary ==
    /\ envPath = OverridePath
    /\ \E f \in BinaryFiles :
        files = [p \in Paths |-> IF p = OverridePath THEN f ELSE NoFile]
    /\ registry = ListingSingle
    /\ cacheDirExists = FALSE
    /\ tarballs = {}
    /\ metadataFile = NoFile
    /\ cachedBinaryPath = Null
    /\ now = 0
    /\ last = NoCall
    /\ calls = NoCalls
    /\ progress = NoDownload
    /\ host = LinuxX64

IsValidBinary ==
    /\ Idle
    /\ \E r \in {Ret(World, Null)} :
        /\ Commit(r.w)
        /\ last' = [Call("isValidBinary", NoOptions, "none", r, NoStatus)
                        EXCEPT !.due = isValidBinary(World, envPath)]

GetVersion ==
    /\ Idle
    /\ \E r \in {Ret(World, Null)} :
        /\ Commit(r.w)
        /\ last' = [Call("getVersion", NoOptions, "none", r, NoStatus)
                        EXCEPT !.status.version = getVersion(World, envPath)]

NextBinary ==
    \/ IsValidBinary
    \/ GetVersion
    \/ Return

SpecBinary == InitBinary /\ [][NextBinary]_vars

----------------------------------------------------------------------------
(* The progress reports of one download: the transform of downloadAsset's   *)
(* progressStream applied to every short body, chunk by chunk, for every    *)
(* declared asset size                                                      *)

MaxTotal == 4
MaxChunks == 3
MaxChunkLen == 2

\* a JavaScript number: an integer, or what a division by zero gives
JsNumber(n) == [kind |-> "number", value |-> n]
JsInfinity == [kind |-> "Infinity", value |-> 0]
JsNaN == [kind |-> "NaN", value |-> 0]

\* Math.round((downloaded / total) * 100). Math.round rounds halves up. The
\* quotient is taken exactly here, not in binary floating point.
RoundedPercent(downloaded, total) ==
    IF total = 0
    THEN IF downloaded = 0 THEN JsNaN ELSE JsInfinity
    ELSE JsNumber((200 * downloaded + total) \div (2 * total))

\* the bodies a response can deliver: the lengths of its chunks, in order
RECURSIVE BodiesOfLen(_)
BodiesOfLen(n) ==
    IF n = 0 THEN {<<>>}
    ELSE {Append(b, c) : b \in BodiesOfLen(n - 1), c \in 1..MaxChunkLen}

Bodies == UNION {BodiesOfLen(n) : n \in 0..MaxChunks}

\* total = asset.size as the release's JSON declares it; downloaded = 0
InitProgress ==
    /\ envPath = Null
    /\ files = [p \in Paths |-> NoFile]
    /\ registry = ListingSingle
    /\ cacheDirExists = TRUE
    /\ tarballs = {}
    /\ metadataFile = NoFile
    /\ cachedBinaryPath = Null
    /\ now = 0
    /\ last = NoCall
    /\ calls = NoCalls
    /\ host = LinuxX64
    /\ \E total \in 0..MaxTotal, body \in Bodies :
        progress = [total |-> total, body |-> body, seen |-> <<>>,
                    downloaded |-> 0, reports |-> <<>>]

\* transform(chunk, controller): downloaded += chunk.length; onProgress(...)
Transform ==
    /\ progress.body # <<>>
    /\ \E downloaded \in {progress.downloaded + Head(progress.body)} :
        progress' =
            [progress EXCEPT
                !.body = Tail(@),
                !.seen = Append(@, Head(progress.body)),
                !.downloaded = downloaded,
                !.reports =
                    Append(@, [downloaded |-> downloaded,
                               total |-> progress.total,
                               percent |-> RoundedPercent(downloaded,
                                                          progress.total)])]
    /\ UNCHANGED <<calls, envPath, files, cacheDirExists, tarballs,
                   metadataFile, cachedBinaryPath, registry, now, last, host>>

NextProgress == Transform

SpecProgress == InitProgress /\ [][NextProgress]_vars

----------------------------------------------------------------------------
(* version.ts and getAssetFilename on their own: the functions applied to   *)
(* every short string, and to every short list of version strings. The     *)
(* list of strings the functions are given is kept in registry; last holds  *)
(* the call, its arguments and what it returned.                            *)

MaxVersionLen == 7
MaxVersions == 3

\* the characters of a version string: a digit, the dot, the prefix, any other
VersionTokens == {"1", ".", "v", "-"}

RECURSIVE StringsOfLen(_)
StringsOfLen(n) ==
    IF n = 0 THEN {<<>>}
    ELSE {Append(s, t) : s \in StringsOfLen(n - 1), t \in VersionTokens}

ShortStrings == UNION {StringsOfLen(n) : n \in 0..MaxVersionLen}

\* tags and versions as releases carry them, and strings that are neither
VersionStrings ==
    {<<"1", ".", "1", "1", ".", "2">>,
     <<"v", "1", ".", "1", "1", ".", "2">>,
     <<"1", ".", "1", "1", ".", "2", "-", "r", "c">>,
     <<"1", ".", "1", "1", ".", "1", "0">>,
     <<"v", "1", ".", "1", "1", ".", "1", "0">>,
     <<"1", ".", "1", "1", ".", "0">>,
     <<"1", ".", "2", ".", "5">>,
     <<"1", ".", "1", "2", ".", "0">>,
     <<"2", ".", "0", ".", "0">>,
     <<"1", ".", "1", "1">>,
     <<"v", "v", "1", ".", "1", "1", ".", "2">>,
     <<>>}

RECURSIVE ListsOfLen(_)
ListsOfLen(n) ==
    IF n = 0 THEN {<<>>}
    ELSE {Append(l, s) : l \in ListsOfLen(n - 1), s \in VersionStrings}

VersionLists == UNION {ListsOfLen(n) : n \in 0..MaxVersions}

\* the target argument: the default, another one, and two that are no
\* major.minor string
Targets ==
    {PJ_TARGET_VERSION,
     <<"1", ".", "1">>,
     <<"1", ".", "2">>,
     <<"2", ".", "0">>,
     <<"v", "1", ".", "1", "1">>,
     <<"1", ".", "1", "1", ".", "2">>,
     <<"1", ".", "1", "1", "-">>,
     <<"1", ".">>,
     <<"1", "1">>,
     <<>>}

\* the Platform descriptors of types.ts
Platforms ==
    {[os |-> os, arch |-> arch,
      pjOs |-> IF os = "win32" THEN "windows" ELSE os,
      pjArch |-> IF arch = "x64" THEN "amd64" ELSE "arm64"] :
        os \in {"darwin", "linux", "win32"}, arch \in {"x64", "arm64"}}

InitVersion ==
    /\ registry \in {<<s>> : s \in ShortStrings} \cup VersionLists
    /\ envPath = Null
    /\ files = [p \in Paths |-> NoFile]
    /\ cacheDirExists = FALSE
    /\ tarballs = {}
    /\ metadataFile = NoFile
    /\ cachedBinaryPath = Null
    /\ now = 0
    /\ last = NoCall
    /\ calls = NoCalls
    /\ progress = NoDownload
    /\ host = LinuxX64

\* a call of a pure function: nothing but last changes
Applied(op, versions, target, platform, result) ==
    /\ last' = [op |-> op, versions |-> versions, target |-> target,
                platform |-> platform, result |-> result]
    /\ UNCHANGED <<calls, host, progress, envPath, files, cacheDirExists, tarballs,
                   metadataFile, cachedBinaryPath, registry, now>>

\* parseVersion(v) for every v of the list
ParseVersion ==
    /\ Idle
    /\ Applied("parseVersion", registry, NullStr, NullRec,
               [i \in DOMAIN registry |-> parseVersion(registry[i])])

\* isVersionCompatible(v, target) for every v of the list
IsVersionCompatible ==
    /\ Idle
    /\ \E target \in Targets :
        Applied("isVersionCompatible", registry, target, NullRec,
                [i \in DOMAIN registry |->
                    isVersionCompatible(registry[i], target)])

\* compareVersions(a, b) for every a and b of the list
CompareVersions ==
    /\ Idle
    /\ Applied("compareVersions", registry, NullStr, NullRec,
               [i \in DOMAIN registry |->
                   [j \in DOMAIN registry |->
                       compareVersions(registry[i], registry[j])]])

\* findHighestCompatibleVersion(versions, target): filter gives a new array
\* and sort sorts that one, so the array passed in is left as it was
FindHighestCompatibleVersion ==
    /\ Idle
    /\ \E target \in Targets :
        Applied("findHighestCompatibleVersion", registry, target, NullRec,
                findHighestCompatibleVersion(registry, target))

\* getAssetFilename(v, platform) for every v of the list
GetAssetFilename ==
    /\ Idle
    /\ \E platform \in Platforms :
        Applied("getAssetFilename", registry, NullStr, platform,
                [i \in DOMAIN registry |->
                    getAssetFilename(registry[i], platform)])

NextVersion ==
    \/ ParseVersion
    \/ IsVersionCompatible
    \/ CompareVersions
    \/ FindHighestCompatibleVersion
    \/ GetAssetFilename
    \/ Return

SpecVersion == InitVersion /\ [][NextVersion]_vars

----------------------------------------------------------------------------
(* Calls that overlap. The methods are async: a call runs until it awaits   *)
(* an operation of the filesystem, a process or the network, and goes on    *)
(* when the operation has completed; in between, other calls on the same    *)
(* BinaryManager run. calls[p] is the call of caller p: the position in the *)
(* code where it goes on (pc), the methods it will return to (ret), the     *)
(* operation it awaits (io), its local variables, and its result. One step  *)
(* is either the effect of an awaited operation (Effect) or the code that   *)
(* runs from one await to the next without interruption (Start, Resume);    *)
(* only that code reads and writes this.cachedBinaryPath.                   *)

MaxCallers == 2
Callers == 1..MaxCallers

Operations ==
    {"getBinaryPath", "getStatus", "updateBinary", "downloadBinary",
     "clearCache"}

\* nothing is awaited
NoIo == [kind |-> "none", done |-> FALSE, ok |-> TRUE, err |-> "none"]

\* kind is awaited and has not completed
Io(kind) == [kind |-> kind, done |-> FALSE, ok |-> TRUE, err |-> "none"]

\* no write to this.cachedBinaryPath, no return of it
NoWrite == "nowrite"

\* a caller that has made no call
NotCalled ==
    [op |-> "none", pc |-> "idle", ret |-> <<>>, io |-> NoIo, val |-> Null,
     arg |-> Null, pin |-> NullStr, release |-> NullRec, asset |-> NullRec,
     meta |-> NullRec, cachedPath |-> Null,
     valid |-> {}, checked |-> {}, wrote |-> NoWrite, fromMemory |-> NoWrite,
     emptyAtStart |-> FALSE,
     ok |-> TRUE, path |-> Null, err |-> "none", status |-> NoStatus]

\* the entry of each public method
Entry(op) ==
    CASE op = "getBinaryPath" -> "getBinaryPath"
      [] op = "getStatus" -> "getStatus"
      [] op = "updateBinary" -> "updateBinary"
      [] op = "downloadBinary" -> "downloadBinary"
      [] op = "clearCache" -> "clearCache"

\* await of an operation: the code goes on at next when it has completed
Await(c, mem, kind, next) ==
    [c |-> [c EXCEPT !.io = Io(kind), !.pc = next], mem |-> mem]

\* call of a method that returns to back
Invoke(c, entry, back) ==
    [c EXCEPT !.pc = entry, !.ret = <<back>> \o @]

\* return v: to the method that called, or to the caller
Returned(c, v) ==
    IF c.ret = <<>> THEN [c EXCEPT !.pc = "return", !.val = v]
    ELSE [c EXCEPT !.pc = Head(c.ret), !.ret = Tail(c.ret), !.val = v]

\* throw: getBinaryPath catches what its updateBinary throws, nothing else
\* is caught above the methods that throw
Thrown(c, err) ==
    IF \E i \in DOMAIN c.ret : c.ret[i] = "getBinaryPath:updated"
    THEN [c EXCEPT !.pc = "getBinaryPath:updated", !.ret = <<>>,
                   !.val = Null]
    ELSE [c EXCEPT !.pc = "throw", !.ret = <<>>, !.err = err]

\* the call has ended
Ended(c, mem, ok, path, err, status) ==
    [c |-> [c EXCEPT !.pc = "done", !.io = NoIo, !.ret = <<>>, !.val = Null,
                     !.arg = Null, !.pin = NullStr, !.release = NullRec,
                     !.asset = NullRec, !.meta = NullRec,
                     !.cachedPath = Null,
                     !.ok = ok, !.path = path, !.err = err,
                     !.status = status],
     mem |-> mem]

\* this.cachedBinaryPath = path
Store(c, path) == [c EXCEPT !.wrote = path]

\* variant: the binary path is stored before the check of the binary
DownloadedStoreFirst(c, mem) ==
    [c |-> Invoke([Store(c, CacheBinaryPath) EXCEPT !.arg = CacheBinaryPath],
                  "isValidBinary", "downloadBinary:verified"),
     mem |-> CacheBinaryPath]

\* downloadBinary from "Verify the binary" to the call of isValidBinary
Downloaded(c, mem) ==
    [c |-> Invoke([c EXCEPT !.arg = CacheBinaryPath],
                  "isValidBinary", "downloadBinary:verified"),
     mem |-> mem]

\* The code of the manager from position c.pc to its next await or to the
\* end of the call; mem is this.cachedBinaryPath. The result of the
\* operation awaited last is in c.val (c.io.ok: it did not throw).
RECURSIVE Run(_, _)
Run(c, mem) ==
    CASE c.pc = "return" -> Ended(c, mem, TRUE, c.val, "none", NoStatus)
      [] c.pc = "throw" -> Ended(c, mem, FALSE, Null, c.err, NoStatus)

      \* getBinaryPath
      [] c.pc = "getBinaryPath" ->
            IF envPath # Null
            THEN Run(Invoke([c EXCEPT !.arg = envPath], "isValidBinary",
                            "getBinaryPath:override"), mem)
            ELSE Run(Invoke(c, "findGlobalBinary", "getBinaryPath:global"),
                     mem)
      [] c.pc = "getBinaryPath:override" ->
            IF c.val THEN Run(Returned(c, envPath), mem)
            ELSE Run(Thrown(c, "InvalidOverride"), mem)
      [] c.pc = "getBinaryPath:global" ->
            IF c.val # Null THEN Run(Returned(c, c.val), mem)
            ELSE Run(Invoke(c, "getCachedBinaryPath", "getBinaryPath:cached"),
                     mem)
      [] c.pc = "getBinaryPath:cached" ->
            IF c.val # Null
            THEN Run(Invoke([c EXCEPT !.cachedPath = c.val],
                            "shouldCheckForUpdate", "getBinaryPath:due"), mem)
            ELSE Run(Invoke(c, "downloadBinary", "getBinaryPath:downloaded"),
                     mem)
      [] c.pc = "getBinaryPath:due" ->
            IF c.val
            THEN Run(Invoke(c, "updateBinary", "getBinaryPath:updated"), mem)
            ELSE Run(Returned(c, c.cachedPath), mem)
      [] c.pc = "getBinaryPath:updated" ->
            Run(Returned(c, c.cachedPath), mem)
      [] c.pc = "getBinaryPath:downloaded" -> Run(Returned(c, c.val), mem)

      \* getStatus
      [] c.pc = "getStatus" ->
            IF envPath # Null
            THEN Run(Invoke([c EXCEPT !.arg = envPath], "isValidBinary",
                            "getStatus:override"), mem)
            ELSE Run(Invoke(c, "findGlobalBinary", "getStatus:global"), mem)
      [] c.pc = "getStatus:override" ->
            IF c.val
            THEN Run(Invoke(c, "getVersion", "getStatus:overrideVersion"),
                     mem)
            ELSE Run(Invoke(c, "findGlobalBinary", "getStatus:global"), mem)
      [] c.pc = "getStatus:overrideVersion" ->
            Ended(c, mem, TRUE, Null, "none",
                  Status(TRUE, envPath, c.val, "env"))
      [] c.pc = "getStatus:global" ->
            IF c.val # Null
            THEN Run(Invoke([c EXCEPT !.arg = c.val, !.cachedPath = c.val],
                            "getVersion", "getStatus:globalVersion"), mem)
            ELSE Run(Invoke(c, "getCachedBinaryPath", "getStatus:cached"),
                     mem)
      [] c.pc = "getStatus:globalVersion" ->
            Ended(c, mem, TRUE, Null, "none",
                  Status(TRUE, c.cachedPath, c.val, "global"))
      [] c.pc = "getStatus:cached" ->
            IF c.val # Null
            THEN Run(Invoke([c EXCEPT !.arg = c.val, !.cachedPath = c.val],
                            "getVersion", "getStatus:cachedVersion"), mem)
            ELSE Ended(c, mem, TRUE, Null, "none",
                       Status(FALSE, Null, NullStr, Null))
      [] c.pc = "getStatus:cachedVersion" ->
            Ended(c, mem, TRUE, Null, "none",
                  Status(TRUE, c.cachedPath, c.val, "cache"))

      \* isValidBinary(c.arg)
      [] c.pc = "isValidBinary" ->
            Await(c, mem, "access", "isValidBinary:accessed")
      [] c.pc = "isValidBinary:accessed" ->
            IF c.io.ok THEN Await(c, mem, "run", "isValidBinary:version")
            ELSE Run(Returned(c, FALSE), mem)
      [] c.pc = "isValidBinary:version" ->
            IF c.val # NullStr
            THEN Run(Returned([c EXCEPT !.valid = @ \cup {c.arg},
                                        !.checked = @ \cup {c.arg}],
                              TRUE), mem)
            ELSE Run(Returned(c, FALSE), mem)

      \* getVersion(c.arg)
      [] c.pc = "getVersion" -> Await(c, mem, "run", "getVersion:ran")
      [] c.pc = "getVersion:ran" -> Run(Returned(c, c.val), mem)

      \* findGlobalBinary
      [] c.pc = "findGlobalBinary" ->
            Await(c, mem, "which", "findGlobalBinary:found")
      [] c.pc = "findGlobalBinary:found" ->
            IF c.val = Null THEN Run(Returned(c, Null), mem)
            ELSE Run(Invoke([c EXCEPT !.arg = c.val], "isValidBinary",
                            "findGlobalBinary:valid"), mem)
      [] c.pc = "findGlobalBinary:valid" ->
            IF c.val
            THEN Run(Invoke(c, "getVersion", "findGlobalBinary:version"), mem)
            ELSE Run(Returned(c, Null), mem)
      [] c.pc = "findGlobalBinary:version" ->
            IF CompatibleVersion(c.val) THEN Run(Returned(c, c.arg), mem)
            ELSE Run(Returned(c, Null), mem)

      \* getCachedBinaryPath: this.cachedBinaryPath is read anew each time
      \* the code names it
      [] c.pc = "getCachedBinaryPath" ->
            IF mem # Null
            THEN Run(Invoke([c EXCEPT !.arg = mem, !.checked = {}],
                            "isValidBinary", "getCachedBinaryPath:memValid"),
                     mem)
            ELSE Run([c EXCEPT !.pc = "getCachedBinaryPath:disk",
                               !.checked = {}], mem)
      [] c.pc = "getCachedBinaryPath:memValid" ->
            IF c.val
            THEN Run(Invoke([c EXCEPT !.arg = mem], "getVersion",
                            "getCachedBinaryPath:memVersion"), mem)
            ELSE Run([Store(c, Null) EXCEPT
                          !.pc = "getCachedBinaryPath:disk"], Null)
      [] c.pc = "getCachedBinaryPath:memVersion" ->
            IF CompatibleVersion(c.val)
            THEN Run(Returned([c EXCEPT !.fromMemory = mem], mem), mem)
            ELSE Run([Store(c, Null) EXCEPT
                          !.pc = "getCachedBinaryPath:disk"], Null)
      [] c.pc = "getCachedBinaryPath:disk" ->
            Run(Invoke([c EXCEPT !.arg = CacheBinaryPath], "isValidBinary",
                       "getCachedBinaryPath:diskValid"), mem)
      [] c.pc = "getCachedBinaryPath:diskValid" ->
            IF c.val
            THEN Run(Invoke(c, "getVersion",
                            "getCachedBinaryPath:diskVersion"), mem)
            ELSE Run(Returned(c, Null), mem)
      [] c.pc = "getCachedBinaryPath:diskVersion" ->
            IF CompatibleVersion(c.val)
            THEN Run(Returned(Store(c, CacheBinaryPath), CacheBinaryPath),
                     CacheBinaryPath)
            ELSE Run(Returned(c, Null), mem)

      \* shouldCheckForUpdate
      [] c.pc = "shouldCheckForUpdate" ->
            Await(c, mem, "readMetadata", "shouldCheckForUpdate:read")
      [] c.pc = "shouldCheckForUpdate:read" ->
            Run(Returned(c, PollDue(c.val, now)), mem)

      \* updateBinary
      [] c.pc = "updateBinary" ->
            Await(c, mem, "getCompatibleRelease", "updateBinary:compatible")
      [] c.pc = "updateBinary:compatible" ->
            IF ~c.io.ok THEN Run(Thrown(c, c.io.err), mem)
            ELSE Await([c EXCEPT !.release = c.val], mem, "readMetadata",
                       "updateBinary:metadata")
      [] c.pc = "updateBinary:metadata" ->
            IF c.val # NullRec /\ c.val.version = c.release.version
            THEN Await([c EXCEPT !.meta =
                            [c.val EXCEPT !.lastUpdateCheck = now]],
                       mem, "saveMetadata", "updateBinary:checked")
            ELSE Run(Invoke([c EXCEPT !.pin = c.release.version],
                            "downloadBinary", "updateBinary:downloaded"), mem)
      [] c.pc = "updateBinary:checked" ->
            IF ~c.io.ok THEN Run(Thrown(c, c.io.err), mem)
            ELSE Run(Invoke(c, "getCachedBinaryPath", "updateBinary:cached"),
                     mem)
      [] c.pc = "updateBinary:cached" ->
            IF c.val # Null THEN Run(Returned(c, c.val), mem)
            ELSE Run(Invoke([c EXCEPT !.pin = c.release.version],
                            "downloadBinary", "updateBinary:downloaded"), mem)
      [] c.pc = "updateBinary:downloaded" -> Run(Returned(c, c.val), mem)

      \* downloadBinary({version: c.pin})
      [] c.pc = "downloadBinary" ->
            Await(c, mem, "selectRelease", "downloadBinary:release")
      [] c.pc = "downloadBinary:release" ->
            IF ~c.io.ok THEN Run(Thrown(c, c.io.err), mem)
            ELSE IF detectPlatform = NullRec
            THEN Run(Thrown(c, "UnsupportedPlatform"), mem)
            ELSE IF FindAsset(c.val, getAssetFilename(c.val.version,
                                                     detectPlatform)) = NullRec
            THEN Run(Thrown(c, "NoMatchingAsset"), mem)
            ELSE Await([c EXCEPT
                            !.release = c.val,
                            !.asset = FindAsset(c.val,
                                          getAssetFilename(c.val.version,
                                                           detectPlatform))],
                       mem, "mkdir", "downloadBinary:directory")
      [] c.pc = "downloadBinary:directory" ->
            IF ~c.io.ok THEN Run(Thrown(c, c.io.err), mem)
            ELSE Await(c, mem, "downloadAsset", "downloadBinary:archive")
      [] c.pc = "downloadBinary:archive" ->
            IF ~c.io.ok THEN Run(Thrown(c, c.io.err), mem)
            ELSE Await(c, mem, "extract", "downloadBinary:extracted")
      [] c.pc = "downloadBinary:extracted" ->
            IF ~c.io.ok THEN Run(Thrown(c, c.io.err), mem)
            ELSE Await(c, mem, "unlink", "downloadBinary:unlinked")
      [] c.pc = "downloadBinary:unlinked" ->
            IF ~c.io.ok THEN Run(Thrown(c, c.io.err), mem)
            ELSE IF processPlatform # "win32"
            THEN Await(c, mem, "chmod", "downloadBinary:executable")
            ELSE Run(Downloaded(c, mem).c, Downloaded(c, mem).mem)
      [] c.pc = "downloadBinary:executable" ->
            IF ~c.io.ok THEN Run(Thrown(c, c.io.err), mem)
            ELSE Run(Downloaded(c, mem).c, Downloaded(c, mem).mem)
      [] c.pc = "downloadBinary:verified" ->
            IF ~c.val THEN Run(Thrown(c, "VerificationFailed"), mem)
            ELSE Await([c EXCEPT !.meta =
                            CacheMetadata(c.release.version, now, now)],
                       mem, "saveMetadata", "downloadBinary:saved")
      [] c.pc = "downloadBinary:saved" ->
            IF ~c.io.ok THEN Run(Thrown(c, c.io.err), mem)
            ELSE Run(Returned(Store(c, CacheBinaryPath), CacheBinaryPath),
                     CacheBinaryPath)

      \* clearCache
      [] c.pc = "clearCache" ->
            Await(c, mem, "rmCacheDir", "clearCache:removed")
      [] c.pc = "clearCache:removed" ->
            Await(c, mem, "unlinkMetadata", "clearCache:unlinked")
      [] c.pc = "clearCache:unlinked" ->
            Run(Returned(Store(c, Null), Null), Null)

\* fs.access(binaryPath, X_OK) resolves
FileAccess(f) == f.exists /\ (processPlatform = "win32" \/ f.exec)

\* What the operation that c awaits does to the world w, and what it
\* gives: [w, ok, val, err]
Completion(c, w) ==
    CASE c.io.kind = "access" ->
            IF FileAccess(w.files[c.arg]) THEN Ret(w, TRUE)
            ELSE Throw(w, "FsError")
      [] c.io.kind = "run" ->
            IF c.arg = Null THEN Ret(w, NullStr)
            ELSE Ret(w, getVersion(w, c.arg))
      [] c.io.kind = "which" -> Ret(w, WhichPj(w))
      [] c.io.kind = "readMetadata" -> Ret(w, getMetadata(w))
      [] c.io.kind = "saveMetadata" -> saveMetadata(w, c.meta, "none")
      [] c.io.kind = "getCompatibleRelease" ->
            getCompatibleRelease(w, "none")
      [] c.io.kind = "selectRelease" ->
            SelectRelease(w, Options(FALSE, c.pin), "none")
      [] c.io.kind = "mkdir" -> Ret([w EXCEPT !.dir = TRUE], Null)
      [] c.io.kind = "downloadAsset" -> downloadAsset(w, c.asset, "none")
      [] c.io.kind = "extract" ->
            tarExtract(w, c.release, c.asset, "none")
      [] c.io.kind = "unlink" -> unlinkTarball(w, c.asset, "none")
      [] c.io.kind = "chmod" -> chmodBinary(w, CacheBinaryPath, "none")
      [] c.io.kind = "rmCacheDir" -> Ret(rmCacheDir(w, "none"), Null)
      [] c.io.kind = "unlinkMetadata" ->
            Ret(unlinkMetadata(w, "none"), Null)

\* the binary cache holds nothing and nothing is remembered
CacheEmpty ==
    /\ ~files[CacheBinaryPath].exists
    /\ tarballs = {}
    /\ metadataFile = NoFile
    /\ cachedBinaryPath = Null

\* the state of the cache when the callers arrive: empty, or an install of
\* the best release checked today, or one of an older release that was
\* checked a week ago; the manager may have resolved the binary before
InstalledCaches ==
    {[binary |-> File(TRUE, VersionOutput(v1_11_2), <<"v">> \o v1_11_2),
      meta |-> MetadataJson(CacheMetadata(v1_11_2, MaxNow, MaxNow))],
     [binary |-> File(TRUE, VersionOutput(v1_11_0), <<"v">> \o v1_11_0),
      meta |-> MetadataJson(CacheMetadata(v1_11_0, 0, 0))]}

InitConcurrent ==
    /\ envPath = Null
    /\ registry = ListingCurrent
    /\ \/ /\ files = [p \in Paths |-> NoFile]
          /\ cacheDirExists = FALSE
          /\ metadataFile = NoFile
          /\ cachedBinaryPath = Null
       \/ \E i \in InstalledCaches :
          /\ files = [p \in Paths |->
                        IF p = CacheBinaryPath THEN i.binary ELSE NoFile]
          /\ cacheDirExists = TRUE
          /\ metadataFile = i.meta
          /\ cachedBinaryPath \in {Null, CacheBinaryPath}
    /\ tarballs = {}
    /\ now = MaxNow
    /\ last = NoCall
    /\ calls = [p \in Callers |-> NotCalled]
    /\ progress = NoDownload
    /\ host = LinuxX64

\* the code of a call has run to its next await or to its end
Ran(p, r) ==
    /\ calls' = [calls EXCEPT ![p] = r.c]
    /\ cachedBinaryPath' = r.mem
    /\ UNCHANGED <<host, progress, envPath, files, cacheDirExists, tarballs,
                   metadataFile, registry, now, last>>

\* caller p calls a method of the manager; the method runs to its first
\* await
Start(p) ==
    /\ calls[p].pc = "idle"
    /\ \E op \in Operations :
        Ran(p, Run([NotCalled EXCEPT !.op = op, !.pc = Entry(op),
                                     !.emptyAtStart = CacheEmpty],
                   cachedBinaryPath))

\* the operation that the call of p awaits takes effect and completes
Effect(p) ==
    /\ calls[p].io.kind # "none"
    /\ ~calls[p].io.done
    /\ \E r \in {Completion(calls[p], World)} :
        /\ calls' = [calls EXCEPT
                        ![p].io = [@ EXCEPT !.done = TRUE, !.ok = r.ok,
                                            !.err = r.err],
                        ![p].val = r.val,
                        ![p].wrote = NoWrite,
                        ![p].fromMemory = NoWrite]
        /\ files' = r.w.files
        /\ cacheDirExists' = r.w.dir
        /\ tarballs' = r.w.tars
        /\ metadataFile' = r.w.meta
        /\ UNCHANGED <<host, progress, envPath, cachedBinaryPath, registry,
                       now, last>>

\* the call of p goes on after the operation it awaited
Resume(p) ==
    /\ calls[p].io.done
    /\ Ran(p, Run(calls[p], cachedBinaryPath))

Starts == \E p \in Callers : Start(p)
Effects == \E p \in Callers : Effect(p)
Resumes == \E p \in Callers : Resume(p)

NextConcurrent ==
    \/ Starts
    \/ Effects
    \/ Resumes

SpecConcurrent == InitConcurrent /\ [][NextConcurrent]_vars

----------------------------------------------------------------------------
(* Properties. A call is one step from an Idle state: the unprimed          *)
(* variables are the world the call found, last' is the call and its        *)
(* result, the primed variables are the world it left.                      *)

\* version is written major.minor.patch with the major.minor of
\* PJ_TARGET_VERSION: it starts with "1.11."
WithinTarget(version) ==
    /\ version # NullStr
    /\ Len(version) > Len(PJ_TARGET_VERSION) + 1
    /\ SubSeq(version, 1, Len(PJ_TARGET_VERSION) + 1) =
           PJ_TARGET_VERSION \o <<".">>

\* the PATH has a pj that is valid and within the target range
GlobalUsable ==
    /\ WhichPj(World) # Null
    /\ isValidBinary(World, GlobalPath)
    /\ WithinTarget(getVersion(World, GlobalPath))

\* the cache holds a binary that is valid and within the target range
CachedUsable ==
    /\ isValidBinary(World, CacheBinaryPath)
    /\ WithinTarget(getVersion(World, CacheBinaryPath))

\* the call changed nothing in the cache: files, archives, metadata,
\* in-memory path
CacheUntouched ==
    UNCHANGED <<files, cacheDirExists, tarballs, metadataFile,
                cachedBinaryPath>>

RECURSIVE Count(_, _)
Count(log, event) ==
    IF Len(log) = 0 THEN 0
    ELSE (IF Head(log) = event THEN 1 ELSE 0) + Count(Tail(log), event)

\* the faults of the listing request and of the by-tag request
ListingFaults == {"listReleases", "listReleasesFetch"}
ByTagFaults == {"getRelease", "getReleaseFetch"}

\* requests to the registry that select a release
Selections(log) == Count(log, "listReleases") + Count(log, "getRelease")

\* requests over the network
Requests(log) == Selections(log) + Count(log, "downloadAsset")

\* the log of a getBinaryPath that went from the cache lookup to the poll
\* check and from there to the update's registry query
UpdateAttempted(log) ==
    /\ Len(log) >= 4
    /\ SubSeq(log, 1, 4) = <<"which", "cacheCheck", "getMetadata",
                             "listReleases">>

\* a getBinaryPath call is made in this step
CallsGetBinaryPath == Idle /\ last'.op = "getBinaryPath"

\* C1: when PJ_BINARY_PATH names a path that fails isValidBinary,
\* getBinaryPath throws the invalid-override binary error having consulted
\* nothing else (no PATH lookup, no cache check, no registry or download
\* request) and leaves the files, the metadata and the in-memory path as
\* they were.
C1_InvalidOverrideFails ==
    [][(CallsGetBinaryPath /\ envPath # Null
            /\ ~isValidBinary(World, envPath))
        => /\ ~last'.ok
           /\ last'.err = "InvalidOverride"
           /\ last'.log = <<>>
           /\ CacheUntouched]_vars

\* an invalid override made getBinaryPath throw although the PATH has a
\* usable pj and the cache holds an installed binary with its metadata
C1_Witness ==
    /\ last.op = "getBinaryPath"
    /\ last.err = "InvalidOverride"
    /\ envPath # Null
    /\ ~isValidBinary(World, envPath)
    /\ GlobalUsable
    /\ CachedUsable
    /\ metadataFile.exists

\* C2: getBinaryPath takes the first usable source in the order override,
\* PATH, cache, download: a valid override is returned with no PATH lookup,
\* cache check or request; with no override a usable PATH binary is
\* returned after the PATH lookup alone, the cache and the metadata
\* untouched; with neither, a usable cached binary is returned unless force
\* is set; otherwise the call goes on to select a release to download.
C2_ResolutionOrder ==
    [][CallsGetBinaryPath =>
        /\ (envPath # Null /\ isValidBinary(World, envPath))
            => /\ last'.ok /\ last'.path = envPath
               /\ last'.log = <<>>
               /\ CacheUntouched
        /\ (envPath = Null /\ GlobalUsable)
            => /\ last'.ok /\ last'.path = GlobalPath
               /\ last'.log = <<"which">>
               /\ CacheUntouched
        /\ (envPath = Null /\ ~GlobalUsable /\ CachedUsable /\ ~last'.force)
            => /\ last'.ok /\ last'.path = CacheBinaryPath
               /\ SubSeq(last'.log, 1, 3) =
                      <<"which", "cacheCheck", "getMetadata">>
        /\ (envPath = Null /\ ~GlobalUsable
                /\ (~CachedUsable \/ last'.force))
            => /\ Len(last'.log) >= 3
               /\ SubSeq(last'.log, 1, 2) = <<"which", "cacheCheck">>
               /\ last'.log[3] \in {"listReleases", "getRelease"}
               /\ (last'.ok => last'.path = CacheBinaryPath)]_vars

\* the PATH binary was returned while the cache held a usable binary too
C2_Witness ==
    /\ last.op = "getBinaryPath"
    /\ last.ok
    /\ envPath = Null
    /\ last.path = GlobalPath
    /\ CachedUsable
    /\ metadataFile.exists

\* C3: getBinaryPath and getStatus use the PATH binary or the cached binary
\* only if it is valid and its version is compatible with PJ_TARGET_VERSION.
\* One that is not is passed over without an error: getStatus goes on to
\* the next source and reports what it finds, getBinaryPath goes on to the
\* cache and from an unusable cache to the download.
C3_IncompatibleIsAbsent ==
    [][/\ (Idle /\ last'.op = "getStatus") =>
            /\ last'.ok
            /\ last'.status.source = "global" => GlobalUsable
            /\ last'.status.source = "cache" =>
                   (~GlobalUsable /\ CachedUsable)
            /\ (~GlobalUsable /\ ~CachedUsable
                    /\ ~(envPath # Null /\ isValidBinary(World, envPath)))
                   => ~last'.status.available
       /\ CallsGetBinaryPath =>
            /\ (last'.ok /\ last'.path = GlobalPath) => GlobalUsable
            /\ (last'.ok /\ last'.path = CacheBinaryPath
                    /\ (Selections(last'.log) = 0
                            \/ UpdateAttempted(last'.log)))
                   => (~GlobalUsable /\ CachedUsable)
            /\ (envPath = Null /\ ~GlobalUsable) =>
                   /\ Len(last'.log) >= 2
                   /\ last'.log[2] = "cacheCheck"
            /\ (envPath = Null /\ ~GlobalUsable /\ ~CachedUsable) =>
                   /\ Len(last'.log) >= 3
                   /\ last'.log[3] \in {"listReleases", "getRelease"}]_vars

\* getBinaryPath returned the cached binary it installed because the pj on
\* the PATH, though it runs, reports a version outside the target range
C3_Witness ==
    /\ last.op = "getBinaryPath"
    /\ last.ok
    /\ last.path = CacheBinaryPath
    /\ isValidBinary(World, GlobalPath)
    /\ ~GlobalUsable

\* C4: when getBinaryPath attempts the update of a usable cached binary,
\* whatever fails in the update is swallowed: the call does not throw and
\* returns the cached path.
C4_UpdateFailureSwallowed ==
    (last.op = "getBinaryPath"
        /\ (UpdateAttempted(last.log) \/ last.caught # "none"))
    => /\ last.ok
       /\ last.err = "none"
       /\ last.path = CacheBinaryPath

\* the update inside getBinaryPath failed while installing and the call
\* returned the cached path
C4_Witness ==
    /\ last.op = "getBinaryPath"
    /\ last.ok
    /\ last.caught = "ExtractError"
    /\ last.path = CacheBinaryPath

\* C5: every path getBinaryPath returns names, when it is returned, a file
\* that passes isValidBinary, calls that attempted an update included.
C5_ReturnedPathIsValid ==
    (last.op = "getBinaryPath" /\ last.ok)
    => isValidBinary(World, last.path)

\* C6: every path getBinaryPath returns from the PATH, the cache or a fresh
\* download names a binary whose version is compatible with
\* PJ_TARGET_VERSION, whatever the options, and after any calls of
\* getBinaryPath, downloadBinary and updateBinary the binary in the cache,
\* when it is one that runs, has a compatible version.
C6_AlwaysCompatible ==
    /\ (last.op = "getBinaryPath" /\ last.ok
            /\ last.path \in {GlobalPath, CacheBinaryPath})
        => WithinTarget(getVersion(World, last.path))
    /\ (last.op \in {"getBinaryPath", "downloadBinary", "updateBinary"}
            /\ isValidBinary(World, CacheBinaryPath))
        => WithinTarget(getVersion(World, CacheBinaryPath))

\* C7: getBinaryPath attempts an update exactly when there is no override,
\* no usable PATH binary, a usable cached binary, force is not set, no
\* version is pinned and the poll is due; whenever else it returns the
\* cached binary it found, it makes no request over the network.
C7_UpdateAttemptedIff ==
    [][CallsGetBinaryPath =>
        /\ (UpdateAttempted(last'.log) \/ last'.caught # "none")
            <=> /\ envPath = Null
                /\ ~GlobalUsable
                /\ CachedUsable
                /\ ~last'.force
                /\ last'.version = NullStr
                /\ PollDue(getMetadata(World), now)
        /\ (envPath = Null /\ ~GlobalUsable /\ CachedUsable /\ ~last'.force
                /\ ~(last'.version = NullStr
                        /\ PollDue(getMetadata(World), now)))
            => /\ last'.ok /\ last'.path = CacheBinaryPath
               /\ Requests(last'.log) = 0
               /\ last'.log = <<"which", "cacheCheck", "getMetadata">>
               /\ UNCHANGED <<files, tarballs, metadataFile>>]_vars

\* the poll was due, no version was pinned, and getBinaryPath queried the
\* registry before returning the cached binary
C7_Witness ==
    /\ last.op = "getBinaryPath"
    /\ last.ok
    /\ last.path = CacheBinaryPath
    /\ last.version = NullStr
    /\ ~last.force
    /\ UpdateAttempted(last.log)
    /\ now >= UPDATE_CHECK_INTERVAL_DAYS

\* C8: shouldCheckForUpdate answers that the poll is due exactly when no
\* metadata can be read (no file, or a file that is not JSON) or the
\* recorded lastUpdateCheck is a date at least UPDATE_CHECK_INTERVAL_DAYS
\* days before now; with a lastUpdateCheck that is no date, or one in the
\* future, it answers that the poll is not due. It changes nothing.
C8_PollDueExactly ==
    last.op = "shouldCheckForUpdate" =>
        /\ last.ok
        /\ last.due <=>
              \/ ~metadataFile.exists
              \/ ~metadataFile.json
              \/ /\ metadataFile.data.lastUpdateCheck # InvalidDate
                 /\ metadataFile.data.lastUpdateCheck + 7 <= now
        /\ (metadataFile.exists /\ metadataFile.json
                /\ (metadataFile.data.lastUpdateCheck = InvalidDate
                        \/ metadataFile.data.lastUpdateCheck > now))
            => ~last.due

\* the poll was found due on the seventh day after the recorded check
C8_Witness ==
    /\ last.op = "shouldCheckForUpdate"
    /\ last.due
    /\ metadataFile.exists
    /\ metadataFile.json
    /\ metadataFile.data.lastUpdateCheck # InvalidDate
    /\ now - metadataFile.data.lastUpdateCheck = 7

\* the registry lists a compatible stable release whose asset for this
\* platform holds a working binary
RegistryServes == registry \in {ListingCurrent, ListingSingle}

\* C9: with no override, no usable PATH binary and no binary in the cache,
\* getBinaryPath runs the install flow once: one release selection, at most
\* one asset download and one extraction; when it returns, it has made
\* exactly one of each and the path it returns is the cached binary, which
\* passes isValidBinary; and it does return when nothing fails, no version
\* is pinned and the registry serves a working compatible release.
C9_OneInstallFlow ==
    [][(CallsGetBinaryPath /\ envPath = Null /\ ~GlobalUsable
            /\ ~files[CacheBinaryPath].exists)
        => /\ Selections(last'.log) = 1
           /\ Count(last'.log, "downloadAsset") <= 1
           /\ Count(last'.log, "extract") <= 1
           /\ last'.ok =>
                /\ Count(last'.log, "downloadAsset") = 1
                /\ Count(last'.log, "extract") = 1
                /\ last'.path = CacheBinaryPath
                /\ isValidBinary(World', last'.path)
           /\ (last'.fault = "none" /\ last'.version = NullStr
                    /\ RegistryServes)
                => last'.ok]_vars

\* getBinaryPath installed into an empty cache and returned the binary
C9_Witness ==
    /\ last.op = "getBinaryPath"
    /\ last.ok
    /\ last.path = CacheBinaryPath
    /\ last.log = <<"which", "cacheCheck", "listReleases", "mkdir",
                    "downloadAsset", "extract", "unlink", "chmod", "verify",
                    "saveMetadata">>
    /\ isValidBinary(World, CacheBinaryPath)

\* the stable releases of the registry whose version is within the target
\* range
StableWithinTarget ==
    {i \in 1..Len(registry) :
        /\ ~registry[i].prerelease
        /\ WithinTarget(StripV(registry[i].tag_name))}

C11_FailedInstallKeepsMetadata ==
    [][(Idle /\ last'.op = "downloadBinary" /\ ~last'.ok)
        => /\ metadataFile' = metadataFile
           /\ cachedBinaryPath' = cachedBinaryPath]_vars

\* a downloadBinary failed after it had extracted the new binary over an
\* installed one, and the metadata of the earlier install is still there
C11_Witness ==
    /\ last.op = "downloadBinary"
    /\ ~last.ok
    /\ last.err \in {"FsError", "VerificationFailed"}
    /\ Count(last.log, "extract") = 1
    /\ Count(last.log, "saveMetadata") = 0
    /\ metadataFile.exists
    /\ files[CacheBinaryPath].exists
    /\ StripV(files[CacheBinaryPath].origin) # metadataFile.data.version

\* C12: after a downloadBinary that returns, the metadata file holds the
\* version of the release the call installed (the release it selected,
\* whose archive the cached binary was extracted from), source "download",
\* and installedAt and lastUpdateCheck are the same instant.
C12_MetadataAfterInstall ==
    (last.op = "downloadBinary" /\ last.ok) =>
        /\ metadataFile.exists
        /\ metadataFile.json
        /\ \E i \in 1..Len(registry) :
              /\ registry[i].tag_name = last.release
              /\ <<"v">> \o metadataFile.data.version = registry[i].tag_name
        /\ files[CacheBinaryPath].origin = <<"v">> \o metadataFile.data.version
        /\ metadataFile.data.source = "download"
        /\ metadataFile.data.installedAt = metadataFile.data.lastUpdateCheck

\* the version of the stable release within the target range that no other
\* such release of the registry exceeds (NullStr if there is none)
BestVersion ==
    IF StableWithinTarget = {} THEN NullStr
    ELSE StripV(registry[CHOOSE i \in StableWithinTarget :
                    \A j \in StableWithinTarget :
                        compareVersions(StripV(registry[j].tag_name),
                                        StripV(registry[i].tag_name)) <= 0
                ].tag_name)

\* the cache holds a usable binary and metadata that name the best
\* compatible version
UpToDate ==
    /\ metadataFile.exists
    /\ metadataFile.json
    /\ metadataFile.data.version = BestVersion
    /\ CachedUsable

\* C13: an updateBinary that returns leaves the cache up to date, and an
\* updateBinary without force that finds it so (as the second of two calls
\* in immediate succession does, the registry being the same) makes no
\* asset download and, when it returns, has changed only
\* metadata.lastUpdateCheck: version, installedAt, source, the cached
\* binary and the archives are as before and the cached path is returned.
\* (The first conjunct reads the state a call has left at the step in
\* which the caller takes its result.)
C13_SecondUpdateOnlyPolls ==
    [][/\ (last.op = "updateBinary" /\ last.ok) => UpToDate
       /\ (Idle /\ last'.op = "updateBinary" /\ ~last'.force /\ UpToDate)
            => /\ Count(last'.log, "downloadAsset") = 0
               /\ Count(last'.log, "getRelease") = 0
               /\ files' = files
               /\ tarballs' = tarballs
               /\ last'.ok =>
                    /\ last'.path = CacheBinaryPath
                    /\ metadataFile' =
                         [metadataFile EXCEPT !.data.lastUpdateCheck = now]
               /\ ~last'.ok => metadataFile' = metadataFile]_vars

\* an updateBinary without force returned without a download a week after
\* the install: lastUpdateCheck is that day, installedAt the day of install
C13_Witness ==
    /\ last.op = "updateBinary"
    /\ last.ok
    /\ ~last.force
    /\ last.log = <<"listReleases", "getMetadata", "saveMetadata",
                    "cacheCheck">>
    /\ metadataFile.data.installedAt = 0
    /\ metadataFile.data.lastUpdateCheck = UPDATE_CHECK_INTERVAL_DAYS
    /\ now = UPDATE_CHECK_INTERVAL_DAYS

\* the metadata file exists and is JSON
MetadataReadable == metadataFile.exists /\ metadataFile.json

OverrideValid == envPath # Null /\ isValidBinary(World, envPath)

C16_ClearCacheNeverThrows ==
    last.op = "clearCache" =>
        /\ last.ok
        /\ last.err = "none"
        /\ cachedBinaryPath = Null
        /\ last.fault = "none" =>
              /\ ~files[CacheBinaryPath].exists
              /\ tarballs = {}
              /\ ~cacheDirExists
              /\ ~metadataFile.exists

\* clearCache could not remove the cache directory: the binary is still
\* there, the call returned and the in-memory path is empty
C16_Witness ==
    /\ last.op = "clearCache"
    /\ last.ok
    /\ last.fault = "rmCacheDir"
    /\ isValidBinary(World, CacheBinaryPath)
    /\ cachedBinaryPath = Null

\* a getStatus call is made in this step
CallsGetStatus == Idle /\ last'.op = "getStatus"

\* C17 as stated: getStatus makes no registry or download request and leaves
\* the metadata file, the cache directory and the in-memory path as they
\* were.
C17_GetStatusPureRead ==
    [][CallsGetStatus
        => /\ Requests(last'.log) = 0
           /\ UNCHANGED <<files, cacheDirExists, tarballs, metadataFile>>
           /\ UNCHANGED cachedBinaryPath]_vars

\* C17, amended: getStatus returns, makes no registry or download request
\* and leaves the files, the cache directory, the archives and the metadata
\* file as they were. The in-memory path is left alone when the status comes
\* from the override or the PATH; otherwise the cache lookup sets it to the
\* cached binary when that binary is usable and empties it when it is not.
C17_GetStatusReadsDisk ==
    [][CallsGetStatus
        => /\ last'.ok
           /\ Requests(last'.log) = 0
           /\ UNCHANGED <<files, cacheDirExists, tarballs, metadataFile>>
           /\ cachedBinaryPath' =
                IF OverrideValid \/ GlobalUsable THEN cachedBinaryPath
                ELSE IF CachedUsable THEN CacheBinaryPath
                ELSE Null
           /\ last'.status.available =
                (OverrideValid \/ GlobalUsable \/ CachedUsable)]_vars

\* getStatus reported the cached binary and the in-memory path names it
C17_Witness ==
    /\ last.op = "getStatus"
    /\ last.status.available
    /\ last.status.source = "cache"
    /\ last.status.path = CacheBinaryPath
    /\ cachedBinaryPath = CacheBinaryPath
    /\ metadataFile.exists

\* C18: a getBinaryPath with options.version = V and no override that
\* returns, returns the path of a binary installed from release V, whatever
\* was on the PATH or in the cache before. Stated in its weakest reading: the
\* binary at the returned path was extracted from release V or, where it
\* came from elsewhere, at least reports version V.
C18_PinnedVersionReturned ==
    (last.op = "getBinaryPath" /\ last.ok /\ envPath = Null
        /\ last.version # NullStr)
    => /\ files[last.path].exists
       /\ \/ files[last.path].origin = <<"v">> \o last.version
          \/ getVersion(World, last.path) = last.version

\* C19 as stated: a getBinaryPath with options.force and no override goes
\* through the download-and-install flow (which begins by selecting a
\* release from the registry), also when a usable binary is on the PATH or
\* in the cache.
C19_ForceAlwaysInstalls ==
    (last.op = "getBinaryPath" /\ last.force /\ envPath = Null)
    => Selections(last.log) >= 1

\* the tag of the release a downloadBinary with this options.version
\* selects: the pinned one, or the best stable release within the target
SelectedTag(version) ==
    IF version # NullStr THEN TagOf(version)
    ELSE IF BestVersion # NullStr THEN <<"v">> \o BestVersion
    ELSE NullStr

\* pj_<version>_<pjOs>_<pjArch>.tar.gz for the release with this tag
ExpectedFilename(tag) == getAssetFilename(StripV(tag), detectPlatform)

\* the registry has a release with this tag / which has an asset of this name
ReleaseExists(tag) ==
    \E i \in 1..Len(registry) : registry[i].tag_name = tag

HasAsset(tag, name) ==
    \E i \in 1..Len(registry) :
        /\ registry[i].tag_name = tag
        /\ \E a \in registry[i].assets : a.name = name

\* sub occurs in message as a run of consecutive elements
Contains(message, sub) ==
    \E i \in 1..(Len(message) - Len(sub) + 1) :
        SubSeq(message, i, i + Len(sub) - 1) = sub

\* C20: when the release that downloadBinary selects has no asset named
\* pj_<version>_<pjOs>_<pjArch>.tar.gz, the call fails with the
\* no-matching-asset error, whose message contains that filename, having
\* made no download request and created no cache directory, and leaves the
\* files, the archives, the metadata and the in-memory path as they were.
C20_NoAssetFailsEarly ==
    [][(/\ Idle
        /\ last'.op = "downloadBinary"
        /\ last'.fault \notin ListingFaults \cup ByTagFaults
        /\ SelectedTag(last'.version) # NullStr
        /\ ReleaseExists(SelectedTag(last'.version))
        /\ ~HasAsset(SelectedTag(last'.version),
                     ExpectedFilename(SelectedTag(last'.version))))
        => /\ ~last'.ok
           /\ last'.err = "NoMatchingAsset"
           /\ Contains(last'.detail,
                       ExpectedFilename(SelectedTag(last'.version)))
           /\ Count(last'.log, "downloadAsset") = 0
           /\ Count(last'.log, "mkdir") = 0
           /\ Selections(last'.log) = 1
           /\ CacheUntouched]_vars

\* downloadBinary pinned to 1.12.0, whose release has an archive for another
\* platform only, failed naming pj_1.12.0_linux_amd64.tar.gz on an empty cache
C20_Witness ==
    /\ last.op = "downloadBinary"
    /\ ~last.ok
    /\ last.err = "NoMatchingAsset"
    /\ last.version = v1_12_0
    /\ Contains(last.detail,
                <<"pj_">> \o v1_12_0 \o
                    <<"_", "linux", "_", "amd64", ".tar.gz">>)
    /\ last.log = <<"getRelease">>
    /\ ~cacheDirExists
    /\ ~files[CacheBinaryPath].exists
    /\ ~metadataFile.exists

\* the stable releases of the listing: those getAllReleases returns
StableReleases == {i \in 1..Len(registry) : ~registry[i].prerelease}

\* a call that selects its release with getCompatibleRelease is made in
\* this step and its listing request is answered
CallsGetCompatibleRelease ==
    /\ Idle
    /\ \/ last'.op = "updateBinary"
       \/ last'.op = "downloadBinary" /\ last'.version = NullStr
    /\ last'.fault \notin ListingFaults

C22_RegistryFailureTyped ==
    (/\ last.op \in {"getBinaryPath", "downloadBinary", "updateBinary"}
     /\ ~last.ok
     /\ last.fault \in ListingFaults \cup ByTagFaults)
    => last.err \in PjBinaryError

\* the registry flags the release with this tag as a prerelease
IsPrerelease(tag) ==
    \E i \in 1..Len(registry) :
        registry[i].tag_name = tag /\ registry[i].prerelease

\* C23: a prerelease is installed only by a pinned install, and then it is
\* the release whose tag is the pinned version with a leading v: an unpinned
\* downloadBinary or getBinaryPath and every updateBinary never install a
\* release that the registry flags as prerelease. (That a pinned install can
\* install one is what C23_Witness reaches.)
C23_PrereleaseOnlyWhenPinned ==
    [][(Idle /\ last'.op # "none" /\ last'.release # NullStr
            /\ IsPrerelease(last'.release))
        => /\ last'.op \in {"downloadBinary", "getBinaryPath"}
           /\ last'.version # NullStr
           /\ last'.release = <<"v">> \o StripV(last'.version)
           /\ Count(last'.log, "getRelease") = 1
           /\ Count(last'.log, "listReleases") = 0]_vars

\* downloadBinary pinned to v1.11.4, which the registry flags as prerelease,
\* installed it: the cached binary and the metadata are those of 1.11.4
C23_Witness ==
    /\ last.op = "downloadBinary"
    /\ last.ok
    /\ last.version = <<"v">> \o v1_11_4
    /\ last.release = <<"v">> \o v1_11_4
    /\ IsPrerelease(last.release)
    /\ files[CacheBinaryPath].origin = <<"v">> \o v1_11_4
    /\ metadataFile.exists
    /\ metadataFile.data.version = v1_11_4

\* s is one or more digits
IsNumber(s) == Len(s) > 0 /\ \A k \in 1..Len(s) : s[k] \in Digits

\* s is number.number.number
IsTriple(s) ==
    \E a, b \in 1..Len(s) :
        /\ a < b
        /\ s[a] = "." /\ s[b] = "."
        /\ IsNumber(SubSeq(s, 1, a - 1))
        /\ IsNumber(SubSeq(s, a + 1, b - 1))
        /\ IsNumber(SubSeq(s, b + 1, Len(s)))

\* out contains a major.minor.patch number
HasTriple(out) ==
    \E i, j \in 1..Len(out) : i <= j /\ IsTriple(SubSeq(out, i, j))

\* the file can be run and its run prints a major.minor.patch number
RunsAndReportsVersion(f) ==
    /\ f.exists
    /\ f.exec
    /\ f.out # NullStr
    /\ HasTriple(f.out)

\* C24: isValidBinary(p) is true exactly when the file p exists, is
\* executable, and its --version run succeeds in time with an output that
\* contains a major.minor.patch number; neither isValidBinary nor getVersion
\* throws, and getVersion gives null when the run fails or times out or the
\* output holds no such number, and otherwise a major.minor.patch number
\* found in the output.
C24_ValidIffRunsAndReports ==
    /\ last.op = "isValidBinary" =>
          /\ last.ok
          /\ last.due = RunsAndReportsVersion(files[envPath])
    /\ last.op = "getVersion" =>
          /\ last.ok
          /\ ~RunsAndReportsVersion(files[envPath])
                => last.status.version = NullStr
          /\ RunsAndReportsVersion(files[envPath])
                => /\ last.status.version # NullStr
                   /\ IsTriple(last.status.version)
                   /\ Contains(files[envPath].out, last.status.version)

\* isValidBinary accepted an executable file printing "v1.1.1"
C24_Witness ==
    /\ last.op = "isValidBinary"
    /\ last.due
    /\ files[envPath].exec
    /\ files[envPath].out = <<"v", "1", ".", "1", ".", "1">>

\* the entries of the archives that this call extracted from: those of the
\* assets of the registry whose archive the call downloaded
ArchiveEntries(tag) ==
    UNION {a.payload.entries :
              a \in UNION {registry[i].assets :
                              i \in {j \in 1..Len(registry) :
                                        registry[j].tag_name = tag}}}

\* C25: whatever archive downloadBinary extracts, every entry the extraction
\* writes has the base name of the platform binary (pj); entries with any
\* other base name are skipped, and on return the entries written are
\* exactly those of the installed release's archive with that base name.
C25_OnlyBinaryExtracted ==
    /\ \A e \in last.extracted : e[Len(e)] = "pj"
    /\ (last.ok /\ last.release # NullStr /\ Count(last.log, "extract") = 1)
          => last.extracted =
                {e \in ArchiveEntries(last.release) : e[Len(e)] = "pj"}

\* downloadBinary extracted an archive holding pj, README.md and LICENSE and
\* wrote pj alone
C25_Witness ==
    /\ last.op = "downloadBinary"
    /\ last.ok
    /\ Count(last.log, "extract") = 1
    /\ {<<"pj">>, <<"README.md">>, <<"LICENSE">>}
          \subseteq ArchiveEntries(last.release)
    /\ last.extracted = {<<"pj">>}
    /\ isValidBinary(World, CacheBinaryPath)

\* C26 as stated: once a call has returned or thrown (every state here: a
\* call is one step), the cache directory holds no archive.
C26_NoArchiveAtRest == tarballs = {}

\* C27: when the response to the asset download is not 2xx or has no body,
\* downloadAsset throws a PjBinaryError (which ends downloadBinary and
\* updateBinary with that error, and which getBinaryPath passes on unless it
\* arose in its opportunistic update), and no archive file has been created
\* or written: the archives in the cache directory and the files are as
\* they were.
C27_DownloadRefusedNoFile ==
    [][(Idle /\ last'.op # "none"
            /\ last'.fault \in {"downloadHttp", "downloadEmpty"})
        => /\ last'.log[Len(last'.log)] = "downloadAsset"
           /\ Count(last'.log, "downloadAsset") = 1
           /\ \/ /\ ~last'.ok
                 /\ last'.err = "DownloadError"
                 /\ last'.err \in PjBinaryError
              \/ /\ last'.ok
                 /\ last'.op = "getBinaryPath"
                 /\ last'.caught = "DownloadError"
           /\ tarballs' = tarballs
           /\ files' = files
           /\ cacheDirExists']_vars

\* downloadBinary got a response without a body: it failed with the typed
\* error and the cache directory, just created, holds no archive
C27_Witness ==
    /\ last.op = "downloadBinary"
    /\ last.fault = "downloadEmpty"
    /\ ~last.ok
    /\ last.err = "DownloadError"
    /\ last.log = <<"listReleases", "mkdir", "downloadAsset">>
    /\ cacheDirExists
    /\ tarballs = {}
    /\ ~files[CacheBinaryPath].exists

RECURSIVE SumOf(_)
SumOf(lengths) ==
    IF Len(lengths) = 0 THEN 0 ELSE Head(lengths) + SumOf(Tail(lengths))

\* C28 as stated: the callback has been invoked once per chunk received;
\* the i-th report has downloaded equal to the sum of the first i chunk
\* lengths, total equal to the declared size, and percent equal to
\* 100 * downloaded / total rounded to the nearest integer (halves up), a
\* number within 0..100.
C28_ProgressReports ==
    /\ Len(progress.reports) = Len(progress.seen)
    /\ \A i \in 1..Len(progress.reports) :
        /\ progress.reports[i].downloaded =
               SumOf(SubSeq(progress.seen, 1, i))
        /\ i > 1 => progress.reports[i].downloaded >=
                        progress.reports[i - 1].downloaded
        /\ progress.reports[i].total = progress.total
        /\ progress.reports[i].percent.kind = "number"
        /\ 2 * progress.total * progress.reports[i].percent.value
               <= 200 * progress.reports[i].downloaded + progress.total
        /\ 200 * progress.reports[i].downloaded + progress.total
               < 2 * progress.total * (progress.reports[i].percent.value + 1)
        /\ progress.reports[i].percent.value \in 0..100

\* the operations of a call that come from the install flow
InstallSteps == {"mkdir", "downloadAsset", "extract", "unlink", "chmod",
                 "verify"}

\* C29: nothing is retried. A downloadBinary call makes at most one release
\* selection and one asset download; a getBinaryPath call makes at most one
\* update attempt (one listing request) and runs the install flow at most
\* once (no step of it occurs twice), and so does an updateBinary call; and
\* a call whose registry, download, file or verification step fails ends
\* there: that step is the last thing the call did, it was done once, and
\* the call has thrown, or, in getBinaryPath's opportunistic update, has
\* returned the cached path with the failure caught.
C29_NoRetry ==
    last.op \in {"getBinaryPath", "downloadBinary", "updateBinary"} =>
        /\ \A step \in InstallSteps : Count(last.log, step) <= 1
        /\ Count(last.log, "listReleases") <= 1
        /\ Count(last.log, "getRelease") <= 1
        /\ last.op = "downloadBinary" => Selections(last.log) <= 1
        /\ last.fault \notin {"none", "clockAdvance"} =>
              /\ last.log[Len(last.log)] = FaultOp(last.fault)
              /\ Count(last.log, FaultOp(last.fault)) = 1
              /\ \/ ~last.ok /\ last.err # "none" /\ last.path = Null
                 \/ /\ last.ok
                    /\ last.op = "getBinaryPath"
                    /\ last.caught # "none"
                    /\ last.path = CacheBinaryPath

\* getBinaryPath on an empty cache whose asset download was refused: one
\* listing request, one download request, and the call threw
C29_Witness ==
    /\ last.op = "getBinaryPath"
    /\ ~last.ok
    /\ last.fault = "downloadHttp"
    /\ last.err = "DownloadError"
    /\ last.log = <<"which", "cacheCheck", "listReleases", "mkdir",
                    "downloadAsset">>
    /\ ~files[CacheBinaryPath].exists

\* the host is not one of darwin, linux, win32 on x64 or arm64
HostUnsupported ==
    \/ host.platform \notin {"darwin", "linux", "win32"}
    \/ host.arch \notin {"x64", "arm64"}

\* the errors of a release selection that fails
SelectionErrors == {"RegistryError", "NoCompatibleRelease", FetchRejected}

\* C30 as stated: on an unsupported host every downloadBinary call fails
\* with detectPlatform's error, downloads nothing and writes nothing, and a
\* getBinaryPath that finds a valid override, a usable PATH binary or a
\* usable cached binary returns it.
C30_UnsupportedAlwaysPlatformError ==
    [][(Idle /\ HostUnsupported)
        => /\ last'.op = "downloadBinary"
                => /\ ~last'.ok
                   /\ last'.err = "UnsupportedPlatform"
                   /\ Count(last'.log, "downloadAsset") = 0
                   /\ CacheUntouched
           /\ (/\ last'.op = "getBinaryPath"
               /\ \/ OverrideValid
                  \/ envPath = Null /\ GlobalUsable
                  \/ envPath = Null /\ CachedUsable /\ ~last'.force)
                => last'.ok]_vars

\* C30, amended: on an unsupported host every downloadBinary call fails,
\* having downloaded no asset, created no directory and written nothing:
\* with detectPlatform's error when its release selection succeeds, and with
\* the selection's own error when that fails first, the release being
\* selected before the platform is detected. A getBinaryPath that finds a
\* valid override, a usable PATH binary or, without force, a usable cached
\* binary returns that binary.
C30_UnsupportedHostFails ==
    [][(Idle /\ HostUnsupported)
        => /\ last'.op = "downloadBinary"
                => /\ ~last'.ok
                   /\ last'.err \in {"UnsupportedPlatform"} \cup SelectionErrors
                   /\ (last'.err = "UnsupportedPlatform") =
                        (/\ last'.fault = "none"
                         /\ SelectedTag(last'.version) # NullStr
                         /\ ReleaseExists(SelectedTag(last'.version)))
                   /\ Selections(last'.log) = 1
                   /\ Len(last'.log) = 1
                   /\ CacheUntouched
           /\ (/\ last'.op = "getBinaryPath"
               /\ \/ OverrideValid
                  \/ envPath = Null /\ GlobalUsable
                  \/ envPath = Null /\ CachedUsable /\ ~last'.force)
                => /\ last'.ok
                   /\ last'.path =
                        IF OverrideValid THEN envPath
                        ELSE IF GlobalUsable THEN GlobalPath
                        ELSE CacheBinaryPath
                   /\ files' = files]_vars

\* on sunos, downloadBinary listed the releases and failed on the platform
\* with the cache as it was
C30_Witness ==
    /\ host.platform = "sunos"
    /\ last.op = "downloadBinary"
    /\ ~last.ok
    /\ last.err = "UnsupportedPlatform"
    /\ last.log = <<"listReleases">>
    /\ tarballs = {}
    /\ ~metadataFile.exists

----------------------------------------------------------------------------
(* version.ts and getAssetFilename, stated without the model's parsing      *)

\* s without one leading v
Unprefixed(s) ==
    IF s # <<>> /\ Head(s) = "v" THEN SubSeq(s, 2, Len(s)) ELSE s

\* the number a string of digits writes
RECURSIVE DecimalValue(_, _)
DecimalValue(s, acc) ==
    IF s = <<>> THEN acc
    ELSE DecimalValue(Tail(s), 10 * acc + DigitValue(Head(s)))

\* t begins with number.number.number: the dots are at a and b and the
\* third number, taken as far as its digits go, ends at c
BeginsWithTriple(t, a, b, c) ==
    /\ a < b /\ b < c
    /\ t[a] = "." /\ t[b] = "."
    /\ IsNumber(SubSeq(t, 1, a - 1))
    /\ IsNumber(SubSeq(t, a + 1, b - 1))
    /\ IsNumber(SubSeq(t, b + 1, c))
    /\ (c = Len(t) \/ t[c + 1] \notin Digits)

\* s matches ^v?\d+\.\d+\.\d+ as a prefix
IsVersionString(s) ==
    \E a, b, c \in 1..Len(Unprefixed(s)) :
        BeginsWithTriple(Unprefixed(s), a, b, c)

\* r is the version that s writes
IsVersionOf(r, s) ==
    /\ r # NullRec
    /\ r.raw = Unprefixed(s)
    /\ \E a, b, c \in 1..Len(Unprefixed(s)) :
        /\ BeginsWithTriple(Unprefixed(s), a, b, c)
        /\ r.major = DecimalValue(SubSeq(Unprefixed(s), 1, a - 1), 0)
        /\ r.minor = DecimalValue(SubSeq(Unprefixed(s), a + 1, b - 1), 0)
        /\ r.patch = DecimalValue(SubSeq(Unprefixed(s), b + 1, c), 0)

\* C31: parseVersion(s) returns a version for every string that matches
\* ^v?\d+\.\d+\.\d+ as a prefix, whatever follows the patch number: major,
\* minor and patch are the three numbers and raw is s without its leading
\* v; for every other string it returns null. It never throws.
C31_ParseVersionPrefix ==
    last.op = "parseVersion" =>
        \A i \in DOMAIN last.versions :
            IF IsVersionString(last.versions[i])
            THEN IsVersionOf(last.result[i], last.versions[i])
            ELSE last.result[i] = NullRec

\* a v-prefixed version with something after its patch number was parsed,
\* and a string that is no version gave null
C31_Witness ==
    /\ last.op = "parseVersion"
    /\ \E i \in DOMAIN last.versions :
        /\ last.versions[i] # <<>>
        /\ Head(last.versions[i]) = "v"
        /\ last.result[i] # NullRec
        /\ last.result[i].minor = 11
    /\ \E i \in DOMAIN last.versions :
        /\ last.result[i] # NullRec
        /\ last.versions[i][Len(last.versions[i])] \notin Digits
    /\ \E i \in DOMAIN last.versions :
        /\ last.versions[i] # <<>>
        /\ last.result[i] = NullRec

\* t is number.number and nothing else, the dot at d
IsTargetString(t, d) ==
    /\ t[d] = "."
    /\ IsNumber(SubSeq(t, 1, d - 1))
    /\ IsNumber(SubSeq(t, d + 1, Len(t)))

\* s is a version, t is a major.minor target, and the major and the minor
\* numbers of the two are equal
SameSeries(s, t) ==
    \E d \in 1..Len(t) :
        /\ IsTargetString(t, d)
        /\ \E a, b, c \in 1..Len(Unprefixed(s)) :
            /\ BeginsWithTriple(Unprefixed(s), a, b, c)
            /\ DecimalValue(SubSeq(Unprefixed(s), 1, a - 1), 0)
                  = DecimalValue(SubSeq(t, 1, d - 1), 0)
            /\ DecimalValue(SubSeq(Unprefixed(s), a + 1, b - 1), 0)
                  = DecimalValue(SubSeq(t, d + 1, Len(t)), 0)

\* C32: isVersionCompatible(v, t) is true exactly when v parses as a
\* version, t is a strict major.minor target (a three-part or a v-prefixed
\* target is none) and the two have the same major and minor numbers,
\* whatever the patch number; it is false when either fails to parse.
C32_CompatibleIffSameSeries ==
    last.op = "isVersionCompatible" =>
        \A i \in DOMAIN last.versions :
            last.result[i] = SameSeries(last.versions[i], last.target)

\* against the default target, two versions of the series with different
\* patch numbers were found compatible and a version of another series
\* was not
C32_Witness ==
    /\ last.op = "isVersionCompatible"
    /\ last.target = PJ_TARGET_VERSION
    /\ \E i, j, k \in DOMAIN last.versions :
        /\ last.result[i] /\ last.result[j] /\ ~last.result[k]
        /\ IsVersionString(last.versions[k])
        /\ Unprefixed(last.versions[i]) # Unprefixed(last.versions[j])

\* the three numbers of a version string
NumbersOf(s) ==
    LET u == Unprefixed(s)
        at == CHOOSE x \in (1..Len(u)) \X (1..Len(u)) \X (1..Len(u)) :
                  BeginsWithTriple(u, x[1], x[2], x[3])
    IN  <<DecimalValue(SubSeq(u, 1, at[1] - 1), 0),
          DecimalValue(SubSeq(u, at[1] + 1, at[2] - 1), 0),
          DecimalValue(SubSeq(u, at[2] + 1, at[3]), 0)>>

\* (major, minor, patch) of x comes before that of y
LexLess(x, y) ==
    \/ x[1] < y[1]
    \/ x[1] = y[1] /\ x[2] < y[2]
    \/ x[1] = y[1] /\ x[2] = y[2] /\ x[3] < y[3]

Sign(n) == IF n < 0 THEN -1 ELSE IF n > 0 THEN 1 ELSE 0

\* C33: over valid versions compareVersions is a strict weak ordering that
\* agrees with the order of (major, minor, patch): compare(a, a) = 0, the
\* sign of compare(a, b) is the opposite of that of compare(b, a), less and
\* equivalent are transitive; with an unparsable argument on either side
\* it returns 0.
C33_CompareIsOrdering ==
    last.op = "compareVersions" =>
        \A i, j \in DOMAIN last.versions :
            IF /\ IsVersionString(last.versions[i])
               /\ IsVersionString(last.versions[j])
            THEN /\ last.result[i][j] < 0 <=>
                        LexLess(NumbersOf(last.versions[i]),
                                NumbersOf(last.versions[j]))
                 /\ last.result[i][j] > 0 <=>
                        LexLess(NumbersOf(last.versions[j]),
                                NumbersOf(last.versions[i]))
                 /\ last.result[i][i] = 0
                 /\ Sign(last.result[i][j]) = -Sign(last.result[j][i])
                 /\ \A k \in DOMAIN last.versions :
                        IsVersionString(last.versions[k]) =>
                            /\ last.result[i][j] < 0 /\ last.result[j][k] < 0
                                  => last.result[i][k] < 0
                            /\ last.result[i][j] = 0 /\ last.result[j][k] = 0
                                  => last.result[i][k] = 0
            ELSE last.result[i][j] = 0

\* three versions were compared that come one before the other, patch 2
\* before patch 10 among them
C33_Witness ==
    /\ last.op = "compareVersions"
    /\ \E i, j, k \in DOMAIN last.versions :
        /\ last.result[i][j] < 0
        /\ last.result[j][k] < 0
        /\ last.result[k][i] > 0
        /\ IsVersionString(last.versions[j])
        /\ IsVersionString(last.versions[k])
        /\ NumbersOf(last.versions[j])[3] = 2
        /\ NumbersOf(last.versions[k])[3] = 10

\* the positions of the versions of the target's series
CompatibleAt(versions, target) ==
    {i \in DOMAIN versions : SameSeries(versions[i], target)}

\* no version of the series at the positions in among comes after the one
\* at i
HighestAt(versions, among, i) ==
    \A j \in among : ~LexLess(NumbersOf(versions[i]), NumbersOf(versions[j]))

\* C34: findHighestCompatibleVersion(versions, target) returns null exactly
\* when no element is compatible with the target; otherwise it returns an
\* element of versions as it stands there (its v kept), compatible, with no
\* compatible element that compares greater, and the first such element in
\* the order of the input when several compare equal; the list passed in
\* is not modified.
C34_HighestCompatibleFirst ==
    last.op = "findHighestCompatibleVersion" =>
        /\ registry = last.versions
        /\ last.result = NullStr <=>
              CompatibleAt(last.versions, last.target) = {}
        /\ last.result # NullStr =>
              \E i \in CompatibleAt(last.versions, last.target) :
                  /\ last.result = last.versions[i]
                  /\ HighestAt(last.versions,
                               CompatibleAt(last.versions, last.target), i)
                  /\ \A j \in CompatibleAt(last.versions, last.target) :
                        j < i => LexLess(NumbersOf(last.versions[j]),
                                         NumbersOf(last.versions[i]))

\* the highest version of the series stands twice in the list, written in
\* two ways, next to a version of another series: the first of the two was
\* returned, its v kept
C34_Witness ==
    /\ last.op = "findHighestCompatibleVersion"
    /\ last.target = PJ_TARGET_VERSION
    /\ Len(last.versions) = 3
    /\ \E i, j, k \in DOMAIN last.versions :
        /\ i < j
        /\ last.result = last.versions[i]
        /\ Head(last.result) = "v"
        /\ last.versions[j] = Unprefixed(last.versions[i])
        /\ IsVersionString(last.versions[k])
        /\ k \notin CompatibleAt(last.versions, last.target)

\* name is pj_<u>_<pjOs>_<pjArch>.tar.gz
IsAssetName(name, u, platform) ==
    /\ Len(name) = Len(u) + 6
    /\ name[1] = "pj_"
    /\ SubSeq(name, 2, Len(u) + 1) = u
    /\ name[Len(u) + 2] = "_"
    /\ name[Len(u) + 3] = platform.pjOs
    /\ name[Len(u) + 4] = "_"
    /\ name[Len(u) + 5] = platform.pjArch
    /\ name[Len(u) + 6] = ".tar.gz"

\* C35: getAssetFilename(version, platform) returns
\* pj_<version without its leading v>_<pjOs>_<pjArch>.tar.gz for every
\* platform descriptor, and the same name for "vX" as for X, X a version
\* written without the prefix.
C35_AssetNameOfVersion ==
    last.op = "getAssetFilename" =>
        /\ \A i \in DOMAIN last.versions :
              IsAssetName(last.result[i], Unprefixed(last.versions[i]),
                          last.platform)
        /\ \A i, j \in DOMAIN last.versions :
              /\ last.versions[i] = <<"v">> \o last.versions[j]
              /\ Unprefixed(last.versions[j]) = last.versions[j]
              => last.result[i] = last.result[j]

\* the name for Windows on x64 was built for a version written with and
\* without the v
C35_Witness ==
    /\ last.op = "getAssetFilename"
    /\ last.platform.os = "win32"
    /\ last.platform.pjArch = "amd64"
    /\ \E i, j \in DOMAIN last.versions :
        /\ last.versions[i] = <<"v">> \o last.versions[j]
        /\ IsVersionString(last.versions[j])
        /\ Unprefixed(last.versions[j]) = last.versions[j]
        /\ last.result[i] = last.result[j]

----------------------------------------------------------------------------
(* Calls that overlap *)

\* C36: under every interleaving of getBinaryPath, getStatus, updateBinary,
\* downloadBinary and clearCache calls on one BinaryManager, each write to
\* this.cachedBinaryPath is a reset to null or the store of a path on which
\* isValidBinary returned true earlier in the same call, and when
\* getCachedBinaryPath returns the in-memory path it has called
\* isValidBinary on it, with the answer true, in that same invocation.
C36_MemoryPathValidated ==
    \A p \in DOMAIN calls :
        /\ calls[p].wrote \notin {NoWrite, Null}
              => calls[p].wrote \in calls[p].valid
        /\ calls[p].fromMemory \notin {NoWrite, Null}
              => calls[p].fromMemory \in calls[p].checked

\* a downloadBinary has stored the path of the binary it installed, and a
\* call that began on the empty cache has found that path in memory,
\* checked it and returned it from getCachedBinaryPath
C36_Witness ==
    \E p, q \in DOMAIN calls :
        /\ p # q
        /\ calls[p].op = "downloadBinary"
        /\ calls[p].wrote = CacheBinaryPath
        /\ calls[q].emptyAtStart
        /\ calls[q].fromMemory = CacheBinaryPath

\* C37: two getBinaryPath calls that overlap on the one manager, both made
\* on an empty cache, with every registry, download, extraction and
\* verification step of a call on its own succeeding: both return the path
\* of a valid binary and neither throws.
C37_ConcurrentFirstUse ==
    (\A p \in DOMAIN calls :
        calls[p].op = "getBinaryPath" /\ calls[p].emptyAtStart)
    => \A p \in DOMAIN calls :
          calls[p].pc = "done" =>
              /\ calls[p].ok
              /\ calls[p].path = CacheBinaryPath

----------------------------------------------------------------------------
(* getStatus against getBinaryPath *)

\* the path that a status source stands for
PathOfSource(source) ==
    CASE source = "env" -> envPath
      [] source = "global" -> GlobalPath
      [] source = "cache" -> CacheBinaryPath
      [] OTHER -> Null

\* getStatus has just reported, and nothing has happened since
StatusReported == last.op = "getStatus"

\* a getBinaryPath() made now, whatever fails on its way, returns path
ResolvesTo(path) ==
    \A fault \in FaultsMet(getBinaryPath(World, NoOptions, "none").w.log) :
        /\ getBinaryPath(World, NoOptions, fault).ok
        /\ getBinaryPath(World, NoOptions, fault).val = path

\* C38: whenever getStatus reports available: true with path p and source
\* s, a getBinaryPath() with no options that follows at once, with the
\* environment, the filesystem and the registry as they were, returns p
\* from the source s and does not throw; and available is true exactly
\* when path and source are not null.
C38_StatusAgreesWithResolution ==
    StatusReported =>
        /\ last.status.available <=>
              (last.status.path # Null /\ last.status.source # Null)
        /\ last.status.available =>
              /\ last.status.path = PathOfSource(last.status.source)
              /\ ResolvesTo(last.status.path)

----------------------------------------------------------------------------
(* The metadata against the cached binary *)

\* C39: after any sequence of downloadBinary, updateBinary, getBinaryPath
\* and clearCache calls, failed ones included, whenever the metadata file
\* exists and no install is in progress, the executable in the cache
\* directory is the one that was extracted from the release whose version
\* is metadata.version.
C39_MetadataNamesCachedBinary ==
    MetadataReadable =>
        /\ files[CacheBinaryPath].exists
        /\ files[CacheBinaryPath].origin = TagOf(metadataFile.data.version)

----------------------------------------------------------------------------
(* The update that getBinaryPath attempts on the way *)

\* the getBinaryPath made last attempted an update that failed, and
\* returned the cached path all the same
UpdateFailed == last.op = "getBinaryPath" /\ last.caught # "none"

\* a getBinaryPath() made now asks the registry for the best compatible
\* release, whatever fails on its way: as an update when the cached binary
\* is still usable, as an install when the failed update has spoilt it
AttemptsAgain ==
    \A fault \in FaultsMet(getBinaryPath(World, NoOptions, "none").w.log) :
        /\ Count(getBinaryPath(World, NoOptions, fault).w.log,
                 "listReleases") = 1
        /\ CachedUsable
              => UpdateAttempted(getBinaryPath(World, NoOptions, fault).w.log)

\* C40: when the update that a getBinaryPath attempts fails, the metadata
\* file is left exactly as it was before the call, lastUpdateCheck
\* included, so that the poll is still due, and a getBinaryPath that
\* follows attempts the update again; this repeats until an attempt
\* succeeds.
C40_FailedUpdateRetried ==
    /\ [][(CallsGetBinaryPath /\ last'.caught # "none")
            => /\ metadataFile' = metadataFile
               /\ PollDue(getMetadata(World), now')]_vars
    /\ [](UpdateFailed => AttemptsAgain)

\* an update failed although the cache holds a usable binary with readable
\* metadata that is a week old
C40_Witness ==
    /\ UpdateFailed
    /\ MetadataReadable
    /\ CachedUsable
    /\ now - metadataFile.data.lastUpdateCheck >= 7

====
